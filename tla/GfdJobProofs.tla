---------------------------- MODULE GfdJobProofs ----------------------------
(***************************************************************************)
(* Proofs about GfdJob, for every bound on faults and crashes: its type    *)
(* invariant, that the job reaps the pod of its own process only, once it  *)
(* has succeeded, that it never deletes that pod before, that the runtime  *)
(* class of the pod follows the labels of the node, and that its calls run *)
(* out.                                                                    *)
(***************************************************************************)
EXTENDS GfdJob, TLAPS

-----------------------------------------------------------------------------
(* The inductive invariant.                                                *)

\* The loop that the job is in: a completed pod is deleted in that of its reaping.
LoopOf == IF job = "sweep" THEN "reap" ELSE job

\* The backoff of each loop: the steps that are left and the tries that were made
\* come to no more than the steps it began with.
LoopInv ==
    /\ loop \in [steps : 0..50, delay : 0..600, tries : 0..50]
    /\ job \in Loops \cup {"sweep"} =>
          /\ loop.steps > 0
          /\ loop.steps + loop.tries <= Steps(LoopOf)
          /\ loop.delay <= Cap(LoopOf)
    /\ job \notin Loops \cup {"sweep"} => loop.delay = 0

\* Until it comes to create its pod the job has none; the one it waits for is its own,
\* and it is about to delete the pod only if that has succeeded.
PodInv ==
    /\ job \in {"begin", "image", "wait", "cc", "snp", "tdx", "get", "delete"} /\ pod # NoPod
          => ~pod.mine
    /\ ReapsItsOwn
    /\ job = "sweep" /\ pod # NoPod => pod.phase = "Succeeded"

\* The class that the labels call for.
Right == CASE {"cc", "snp"} \subseteq labels -> "gpu-snp"
           [] "cc" \in labels /\ "snp" \notin labels /\ "tdx" \in labels -> "gpu-tdx"
           [] OTHER -> "gpu"

\* What the job has found of it, if all its calls were answered.
ClassInv ==
    faults = 0 =>
        /\ job \in {"snp", "tdx"} => "cc" \in labels
        /\ job = "tdx" => "snp" \notin labels
        /\ job \in {"get", "delete", "create"} => class = Right
        /\ pod # NoPod => pod.class = Right

IInv == TypeOK /\ LoopInv /\ PodInv /\ ClassInv

-----------------------------------------------------------------------------
\* A pod stays one when its fields change.
LEMMA PodFields ==
    ASSUME NEW p \in Pod
    PROVE  /\ \A ph \in Phase : [p EXCEPT !.phase = ph] \in Pod
           /\ [p EXCEPT !.leaving = TRUE] \in Pod
           /\ [p EXCEPT !.mine = FALSE] \in Pod
           /\ p # NoPod
<1>1. \A ph \in Phase : [p EXCEPT !.phase = ph] \in Pod
  BY DEF Pod
<1>2. [p EXCEPT !.leaving = TRUE] \in Pod /\ [p EXCEPT !.mine = FALSE] \in Pod
  BY DEF Pod
<1>3. p # NoPod
  <2>1. p.phase # "none"
    BY DEF Pod, Phase
  <2>2. QED
    BY <2>1 DEF NoPod
<1>4. QED
  BY <1>1, <1>2, <1>3

\* The pod of the job.
LEMMA NewPodType ==
    ASSUME class \in Class
    PROVE  /\ NewPod \in Pod /\ NewPod # NoPod
           /\ NewPod.mine /\ NewPod.class = class
BY DEF NewPod, Pod, Phase, NoPod

\* The fields of the loop, and the constants of a backoff.
LEMMA LoopFields ==
    ASSUME LoopInv
    PROVE  loop.steps \in 0..50 /\ loop.delay \in 0..600 /\ loop.tries \in 0..50
<1>1. loop \in [steps : 0..50, delay : 0..600, tries : 0..50]
  BY DEF LoopInv
<1>2. QED
  BY <1>1

\* The three backoffs of the job.
LEMMA Backoffs ==
    ASSUME NEW l \in JobState
    PROVE  /\ Steps(l) \in {30, 50}
           /\ Cap(l) \in {300, 600}
           /\ Duration(l) \in {10, 20}
           /\ Duration(l) <= Cap(l)
BY DEF Steps, Cap, Duration

\* The arithmetic of a try that is not the last one.
LEMMA NextTry ==
    ASSUME NEW s \in 0..50, NEW t \in 0..50, NEW n \in {30, 50}, s > 0, s + t <= n
    PROVE  /\ t + 1 \in 0..50
           /\ s # 1 => s - 1 \in 0..50 /\ s - 1 > 0 /\ (s - 1) + (t + 1) <= n
OBVIOUS

\* A delay that has grown and is not past its cap.
LEMMA NextDelay ==
    ASSUME NEW d \in 0..600, NEW cap \in {300, 600}, ~((d * 3) \div 2 > cap)
    PROVE  (d * 3) \div 2 \in 0..600 /\ (d * 3) \div 2 <= cap
OBVIOUS

\* A try that has not succeeded keeps the backoff within its bounds, or ends the job.
LEMMA RetryBounds ==
    ASSUME LoopInv, NEW l \in Loops, LoopOf = l, job \in Loops \cup {"sweep"}, Retry(l, l)
    PROVE  LoopInv' /\ job' \in {l, "failed"}
<1> DEFINE next  == (loop.delay * 3) \div 2
           over  == next > Cap(l)
           Left  == IF over THEN 0 ELSE loop.steps - 1
           Kind  == [steps : 0..50, delay : 0..600, tries : 0..50]
<1>1. l \in JobState
  BY DEF Loops, JobState
<1>2. loop.steps > 0 /\ loop.steps + loop.tries <= Steps(l)
  BY DEF LoopInv
<1>3. /\ loop.tries + 1 \in 0..50
      /\ ~over => next \in 0..600 /\ next <= Cap(l)
      /\ loop.steps # 1 =>
            /\ loop.steps - 1 \in 0..50 /\ loop.steps - 1 > 0
            /\ (loop.steps - 1) + (loop.tries + 1) <= Steps(l)
  <2>1. /\ loop.steps \in 0..50 /\ loop.tries \in 0..50 /\ loop.delay \in 0..600
        /\ Steps(l) \in {30, 50} /\ Cap(l) \in {300, 600}
    BY <1>1, LoopFields, Backoffs
  <2>2. ~over => next \in 0..600 /\ next <= Cap(l)
    BY <2>1, NextDelay
  <2>3. QED
    BY <1>2, <2>1, <2>2, NextTry
<1>4. CASE loop.steps = 1 \/ Left = 0
  <2>1. job' = "failed" /\ loop' = [steps |-> 0, delay |-> 0, tries |-> loop.tries + 1]
    BY <1>4 DEF Retry, NoLoop
  <2> HIDE DEF next
  <2>2. loop' \in Kind /\ loop'.delay = 0
    BY <1>3, <2>1
  <2>3. QED
    BY <2>1, <2>2 DEF LoopInv, Loops
<1>5. CASE ~(loop.steps = 1 \/ Left = 0)
  <2>1. ~over
    BY <1>5
  <2>2. job' = l /\ loop' = [steps |-> loop.steps - 1, delay |-> next, tries |-> loop.tries + 1]
    BY <1>5, <2>1 DEF Retry
  <2>3. next <= Cap(l)
    BY <1>3, <2>1
  <2> HIDE DEF next
  <2>4. loop' \in Kind
    BY <1>3, <1>5, <2>1, <2>2
  <2>5. /\ loop'.steps > 0
        /\ loop'.steps + loop'.tries <= Steps(l)
        /\ loop'.delay <= Cap(l)
    BY <1>3, <1>5, <2>2, <2>3
  <2>6. LoopOf' = l /\ job' \in Loops \cup {"sweep"}
    BY <2>2 DEF LoopOf, Loops
  <2>7. QED
    BY <2>2, <2>4, <2>5, <2>6 DEF LoopInv, Steps, Cap
<1>6. QED
  BY <1>4, <1>5

\* A loop that begins, the end of one, and a step that leaves it alone.
LEMMA LoopBegins ==
    ASSUME NEW l \in Loops, job' = l, loop' = Begin(l)
    PROVE  LoopInv'
<1>1. loop' = [steps |-> Steps(l), delay |-> Duration(l), tries |-> 0]
  BY DEF Begin
<1>2. Steps(l) \in {30, 50} /\ Duration(l) \in {10, 20} /\ Duration(l) <= Cap(l)
  BY Backoffs DEF Loops, JobState
<1>3. /\ loop' \in [steps : 0..50, delay : 0..600, tries : 0..50]
      /\ loop'.steps > 0 /\ loop'.steps + loop'.tries <= Steps(l) /\ loop'.delay <= Cap(l)
  BY <1>1, <1>2
<1>4. LoopOf' = l /\ job' \in Loops \cup {"sweep"}
  BY DEF LoopOf, Loops
<1>5. QED
  BY <1>3, <1>4 DEF LoopInv, Steps, Cap

\* A loop that ends leaves nothing of its backoff.
LEMMA LoopEnds ==
    ASSUME job' \notin Loops \cup {"sweep"}, loop' = NoLoop
    PROVE  LoopInv'
<1>1. loop' \in [steps : 0..50, delay : 0..600, tries : 0..50] /\ loop'.delay = 0
  BY DEF NoLoop
<1>2. QED
  BY <1>1 DEF LoopInv

\* Steps outside the loop leave its backoff alone.
LEMMA LoopStays ==
    ASSUME LoopInv, UNCHANGED <<job, loop>>
    PROVE  LoopInv'
BY DEF LoopInv, LoopOf, Steps, Cap

\* Outside the loops the delay is that of NoLoop, between two such calls too.
LEMMA LoopRests ==
    ASSUME LoopInv, job \notin Loops \cup {"sweep"}, job' \notin Loops \cup {"sweep"},
           loop' = loop
    PROVE  LoopInv'
BY DEF LoopInv

\* TypeOK after a step, with what it says of the loop from LoopInv.
LEMMA TypeNext ==
    ASSUME LoopInv', flag' \in Flags, job' \in JobState,
           image' \in BOOLEAN, kata' \in BOOLEAN, class' \in Class,
           labels' \in SUBSET {"cc", "snp", "tdx"},
           pod' = NoPod \/ pod' \in Pod,
           faults' \in 0..MaxFaults, crashes' \in 0..MaxCrashes
    PROVE  TypeOK'
<1>1. loop' \in [steps : 0..50, delay : 0..600, tries : 0..50]
  BY DEF LoopInv
<1>2. loop'.steps \in 0..50 /\ loop'.delay \in 0..600 /\ loop'.tries \in 0..50
  BY <1>1
<1>3. loop'.delay \in 0..(IF job' = "sweep" THEN Cap("reap") ELSE Cap(job'))
  <2>1. CASE job' \in Loops \cup {"sweep"}
    <3>1. loop'.delay <= (IF job' = "sweep" THEN Cap("reap") ELSE Cap(job'))
      BY <2>1 DEF LoopInv, LoopOf, Cap
    <3>2. QED
      BY <1>2, <3>1 DEF Cap
  <2>2. CASE job' \notin Loops \cup {"sweep"}
    <3>1. loop'.delay = 0
      BY <2>2 DEF LoopInv
    <3>2. QED
      BY <3>1 DEF Cap
  <2>3. QED
    BY <2>1, <2>2
<1>4. QED
  BY <1>2, <1>3 DEF TypeOK, Cap

\* A call that is not answered counts; one that is does not.
LEMMA FaultsCount ==
    ASSUME faults \in 0..MaxFaults, Answered \/ Unanswered
    PROVE  /\ faults' \in 0..MaxFaults
           /\ faults' = 0 => faults = 0 /\ Answered
BY BoundsAssumption DEF Answered, Unanswered

-----------------------------------------------------------------------------
(* Each step keeps the invariant.                                          *)

\* Before the loops: the job has no pod of its own, and keeps none.
LEMMA StartSteps ==
    ASSUME IInv, Configure \/ GetImage \/ WaitForKata
    PROVE  IInv'
<1> USE DEF At
<1>1. CASE Configure
  <2>1. LoopInv'
    <3>1. job \notin Loops \cup {"sweep"} /\ job' \notin Loops \cup {"sweep"} /\ loop' = loop
      BY <1>1 DEF Configure, Loops
    <3>2. QED
      BY <3>1, LoopRests DEF IInv
  <2>2. TypeOK'
    BY <1>1, <2>1, TypeNext DEF Configure, IInv, TypeOK, JobState
  <2>3. PodInv' /\ ClassInv'
    BY <1>1 DEF Configure, IInv, PodInv, ReapsItsOwn, ClassInv, Right
  <2>4. QED
    BY <2>1, <2>2, <2>3 DEF IInv
<1>2. CASE GetImage
  <2>1. LoopInv'
    BY <1>2, LoopBegins DEF GetImage, Loops
  <2>2. faults' \in 0..MaxFaults /\ (faults' = 0 => faults = 0)
    BY <1>2, FaultsCount DEF GetImage, IInv, TypeOK
  <2>3. TypeOK'
    BY <1>2, <2>1, <2>2, TypeNext DEF GetImage, IInv, TypeOK, JobState, Loops
  <2>4. PodInv' /\ ClassInv'
    BY <1>2, <2>2 DEF GetImage, IInv, PodInv, ReapsItsOwn, ClassInv, Right
  <2>5. QED
    BY <2>1, <2>3, <2>4 DEF IInv
<1>3. CASE WaitForKata
  <2>1. LoopInv' /\ job' \in {"wait", "cc", "failed"}
    <3>1. CASE job' = "cc" /\ loop' = NoLoop
      BY <3>1, LoopEnds DEF Loops
    <3>2. CASE Retry("wait", "wait")
      <4>1. LoopOf = "wait" /\ "wait" \in Loops
        BY <1>3 DEF WaitForKata, LoopOf, Loops
      <4>2. QED
        BY <1>3, <3>2, <4>1, RetryBounds DEF WaitForKata, IInv
    <3>3. QED
      BY <1>3, <3>1, <3>2 DEF WaitForKata
  <2>2. faults' \in 0..MaxFaults /\ (faults' = 0 => faults = 0)
    BY <1>3, FaultsCount DEF WaitForKata, IInv, TypeOK
  <2>3. TypeOK'
    BY <1>3, <2>1, <2>2, TypeNext DEF WaitForKata, IInv, TypeOK, JobState, Loops
  <2>4. PodInv' /\ ClassInv'
    BY <1>3, <2>1, <2>2 DEF WaitForKata, IInv, PodInv, ReapsItsOwn, ClassInv, Right
  <2>5. QED
    BY <2>1, <2>3, <2>4 DEF IInv
<1>4. QED
  BY <1>1, <1>2, <1>3

\* The labels: each is found to be what it is, unless a call was not answered.
LEMMA LabelSteps ==
    ASSUME IInv, ReadyState \/ Technology
    PROVE  IInv'
<1>1. CASE ReadyState
  <2>1. PICK v \in BOOLEAN : LabelIs("cc", v) /\ job' = IfReady(v)
    BY <1>1 DEF ReadyState
  <2>2. job' \in {"snp", "get"}
    BY <2>1 DEF IfReady
  <2>3. faults' \in 0..MaxFaults /\ (faults' = 0 => faults = 0 /\ Answered)
    BY <2>1, FaultsCount DEF LabelIs, IInv, TypeOK
  <2>4. LoopInv'
    <3>1. job \notin Loops \cup {"sweep"} /\ job' \notin Loops \cup {"sweep"} /\ loop' = loop
      BY <1>1, <2>2 DEF ReadyState, At, Loops
    <3>2. QED
      BY <3>1, LoopRests DEF IInv
  <2>5. TypeOK'
    BY <1>1, <2>2, <2>3, <2>4, TypeNext DEF ReadyState, IInv, TypeOK, JobState, Class
  <2>6. PodInv'
    BY <1>1, <2>2 DEF ReadyState, At, IInv, PodInv, ReapsItsOwn
  <2>7. ASSUME faults' = 0 PROVE v <=> "cc" \in labels
    BY <2>1, <2>3, <2>7, BoundsAssumption DEF LabelIs, Unanswered, IInv, TypeOK
  <2>8. ClassInv'
    BY <1>1, <2>1, <2>2, <2>3, <2>7 DEF ReadyState, IfReady, IInv, ClassInv, Right
  <2>9. QED
    BY <2>4, <2>5, <2>6, <2>8 DEF IInv
<1>2. CASE Technology
  <2>1. PICK v \in BOOLEAN :
            /\ LabelIs(job, v)
            /\ job' = IF v \/ job = "tdx" THEN "get" ELSE "tdx"
            /\ class' = CASE v /\ job = "snp" -> "gpu-snp"
                          [] v /\ job = "tdx" -> "gpu-tdx"
                          [] OTHER            -> "gpu"
    BY <1>2 DEF Technology
  <2>2. job \in {"snp", "tdx"} /\ job' \in {"get", "tdx"} /\ class' \in Class
    BY <1>2, <2>1 DEF Technology, Class
  <2>3. faults' \in 0..MaxFaults /\ (faults' = 0 => faults = 0 /\ Answered)
    BY <2>1, FaultsCount DEF LabelIs, IInv, TypeOK
  <2>4. LoopInv'
    <3>1. job \notin Loops \cup {"sweep"} /\ job' \notin Loops \cup {"sweep"} /\ loop' = loop
      BY <1>2, <2>2 DEF Technology, Loops
    <3>2. QED
      BY <3>1, LoopRests DEF IInv
  <2>5. TypeOK'
    BY <1>2, <2>2, <2>3, <2>4, TypeNext DEF Technology, IInv, TypeOK, JobState
  <2>6. PodInv'
    BY <1>2, <2>2 DEF Technology, IInv, PodInv, ReapsItsOwn
  <2>7. ASSUME faults' = 0 PROVE v <=> job \in labels
    BY <2>1, <2>3, <2>7, BoundsAssumption DEF LabelIs, Unanswered, IInv, TypeOK
  <2>8. ClassInv'
    <3> SUFFICES ASSUME faults' = 0 PROVE ClassInv'
      BY DEF ClassInv
    <3>1. "cc" \in labels /\ (job = "tdx" => "snp" \notin labels)
      BY <2>2, <2>3 DEF IInv, ClassInv
    <3>2. CASE v /\ job = "snp"
      <4>1. Right = "gpu-snp" /\ class' = "gpu-snp" /\ job' = "get"
        BY <2>1, <2>7, <3>1, <3>2 DEF Right
      <4>2. QED
        BY <1>2, <2>3, <4>1 DEF Technology, IInv, ClassInv, Right
    <3>3. CASE v /\ job = "tdx"
      <4>1. Right = "gpu-tdx" /\ class' = "gpu-tdx" /\ job' = "get"
        BY <2>1, <2>7, <3>1, <3>3 DEF Right
      <4>2. QED
        BY <1>2, <2>3, <4>1 DEF Technology, IInv, ClassInv, Right
    <3>4. CASE ~v /\ job = "snp"
      <4>1. job' = "tdx" /\ "snp" \notin labels
        BY <2>1, <2>7, <3>4
      <4>2. QED
        BY <1>2, <2>3, <3>1, <4>1 DEF Technology, IInv, ClassInv, Right
    <3>5. CASE ~v /\ job = "tdx"
      <4>1. Right = "gpu" /\ class' = "gpu" /\ job' = "get"
        BY <2>1, <2>7, <3>1, <3>5 DEF Right
      <4>2. QED
        BY <1>2, <2>3, <4>1 DEF Technology, IInv, ClassInv, Right
    <3>6. QED
      BY <2>2, <3>2, <3>3, <3>4, <3>5
  <2>9. QED
    BY <2>4, <2>5, <2>6, <2>8 DEF IInv
<1>3. QED
  BY <1>1, <1>2

\* A deletion only marks the pod.
LEMMA DeleteMarks ==
    ASSUME pod = NoPod \/ pod \in Pod, Delete
    PROVE  /\ pod # NoPod /\ pod' \in Pod
           /\ pod'.mine = pod.mine /\ pod'.phase = pod.phase /\ pod'.class = pod.class
           /\ pod'.leaving
<1>1. pod \in Pod /\ pod' = [pod EXCEPT !.leaving = TRUE]
  BY DEF Delete
<1>2. pod # NoPod /\ pod' \in Pod
  BY <1>1, PodFields
<1>3. QED
  BY <1>1, <1>2 DEF Pod

\* An earlier pod is found and deleted; it is not the one of this process.
LEMMA OldPodSteps ==
    ASSUME IInv, FindOld \/ DeleteOld
    PROVE  IInv'
<1> USE DEF At
<1>1. faults' \in 0..MaxFaults /\ (faults' = 0 => faults = 0)
  BY FaultsCount DEF FindOld, DeleteOld, IInv, TypeOK
<1>2. LoopInv' /\ job' \in {"delete", "create", "failed"}
  <2>1. CASE job' = "create" /\ loop' = Begin("create")
    BY <2>1, LoopBegins DEF Loops
  <2>2. CASE job' \in {"delete", "failed"} /\ loop' = NoLoop
    BY <2>2, LoopEnds DEF Loops
  <2>3. QED
    BY <2>1, <2>2 DEF FindOld, DeleteOld
<1>3. CASE FindOld
  <2>1. TypeOK'
    BY <1>1, <1>2, <1>3, TypeNext DEF FindOld, IInv, TypeOK, JobState, Loops
  <2>2. PodInv' /\ ClassInv'
    BY <1>1, <1>2, <1>3 DEF FindOld, IInv, PodInv, ReapsItsOwn, ClassInv, Right
  <2>3. QED
    BY <1>2, <2>1, <2>2 DEF IInv
<1>4. CASE DeleteOld
  <2>1. pod' = pod \/ Delete
    BY <1>4 DEF DeleteOld
  <2>2. /\ pod' = NoPod \/ pod' \in Pod
        /\ pod' # NoPod => pod # NoPod /\ pod'.class = pod.class
    BY <2>1, DeleteMarks DEF IInv, TypeOK
  <2>3. TypeOK'
    BY <1>1, <1>2, <1>4, <2>2, TypeNext DEF DeleteOld, IInv, TypeOK, JobState, Loops
  <2>4. job' \in {"create", "failed"}
    BY <1>4 DEF DeleteOld
  <2>5. PodInv'
    BY <2>4 DEF PodInv, ReapsItsOwn
  <2>6. ClassInv'
    BY <1>1, <1>4, <2>2, <2>4 DEF DeleteOld, IInv, ClassInv, Right
  <2>7. QED
    BY <1>2, <2>3, <2>5, <2>6 DEF IInv
<1>5. QED
  BY <1>3, <1>4

\* A pod that the job creates, with an answer or without, is its own and has the
\* class that it has found.
LEMMA CreatePodStep ==
    ASSUME IInv, CreatePod
    PROVE  IInv'
<1>1. job = "create" /\ class \in Class /\ UNCHANGED <<flag, image, class, kata, labels, crashes>>
  BY DEF CreatePod, At, IInv, TypeOK
<1>2. faults' \in 0..MaxFaults /\ (faults' = 0 => faults = 0)
  BY FaultsCount DEF CreatePod, Created, IInv, TypeOK
<1>3. pod' = pod \/ pod' = NewPod
  BY DEF CreatePod, Created
<1>4. LoopInv' /\ job' \in {"create", "reap", "failed"}
  <2>1. CASE job' = "reap" /\ loop' = Begin("reap")
    BY <2>1, LoopBegins DEF Loops
  <2>2. CASE Retry("create", "create")
    BY <1>1, <2>2, RetryBounds DEF IInv, LoopOf, Loops
  <2>3. QED
    BY <2>1, <2>2 DEF CreatePod
<1>5. job' = "reap" => pod' = NewPod
  <2>1. ASSUME job' = "reap", Retry("create", "create") PROVE FALSE
    BY <2>1 DEF Retry
  <2>2. QED
    BY <2>1 DEF CreatePod, Created
<1>6. TypeOK'
  BY <1>1, <1>2, <1>3, <1>4, NewPodType, TypeNext DEF IInv, TypeOK, JobState, Loops
<1>7. PodInv'
  BY <1>1, <1>4, <1>5, NewPodType DEF PodInv, ReapsItsOwn
<1>8. ClassInv'
  BY <1>1, <1>2, <1>3, <1>4, NewPodType DEF IInv, ClassInv, Right
<1>9. QED
  BY <1>4, <1>6, <1>7, <1>8 DEF IInv

\* The job looks at its pod and deletes it.
LEMMA ReapSteps ==
    ASSUME IInv, CheckPod \/ SweepPod
    PROVE  IInv'
<1>1. /\ job \in {"reap", "sweep"} /\ LoopOf = "reap" /\ "reap" \in Loops
      /\ job \in Loops \cup {"sweep"}
      /\ UNCHANGED <<flag, image, class, kata, labels, crashes>>
  BY DEF CheckPod, SweepPod, At, LoopOf, Loops
<1>2. faults' \in 0..MaxFaults /\ (faults' = 0 => faults = 0)
  BY FaultsCount DEF CheckPod, SweepPod, IInv, TypeOK
<1>3. pod' = pod \/ Delete
  BY DEF CheckPod, SweepPod
<1>4. /\ pod' = NoPod \/ pod' \in Pod
      /\ pod' # NoPod => /\ pod # NoPod /\ pod'.class = pod.class
                         /\ pod'.mine = pod.mine /\ pod'.phase = pod.phase
  BY <1>3, DeleteMarks DEF IInv, TypeOK
<1>5. LoopInv' /\ job' \in {"reap", "sweep", "done", "failed"}
  <2>1. CASE Retry("reap", "reap")
    BY <1>1, <2>1, RetryBounds DEF IInv
  <2>2. CASE job' \in {"done", "failed"} /\ loop' = NoLoop
    BY <2>2, LoopEnds DEF Loops
  <2>3. CASE job' = "sweep" /\ loop' = loop
    BY <1>1, <2>3 DEF IInv, LoopInv, LoopOf, Steps, Cap
  <2>4. QED
    BY <2>1, <2>2, <2>3 DEF CheckPod, SweepPod, IfGone
<1>6. job' = "sweep" => pod' = pod /\ Completed
  <2>1. ASSUME job' = "sweep", Retry("reap", "reap") PROVE FALSE
    BY <2>1 DEF Retry
  <2>2. QED
    BY <2>1 DEF CheckPod, SweepPod, IfGone
<1>7. TypeOK'
  BY <1>1, <1>2, <1>4, <1>5, TypeNext DEF IInv, TypeOK, JobState, Loops
<1>8. PodInv'
  BY <1>1, <1>4, <1>5, <1>6 DEF IInv, PodInv, ReapsItsOwn, Completed
<1>9. ClassInv'
  BY <1>1, <1>2, <1>4, <1>5 DEF IInv, ClassInv, Right
<1>10. QED
  BY <1>5, <1>7, <1>8, <1>9 DEF IInv

\* The cluster changes the phase of the pod or takes it away; a new process owns no pod.
LEMMA ClusterSteps ==
    ASSUME IInv, LabelNode \/ RunPod \/ DropPod \/ Crash
    PROVE  IInv'
<1>1. CASE LabelNode
  <2>1. LoopInv' /\ TypeOK'
    BY <1>1, LoopStays, TypeNext DEF LabelNode, IInv, TypeOK
  <2>2. PodInv' /\ ClassInv'
    BY <1>1 DEF LabelNode, IInv, PodInv, ReapsItsOwn, ClassInv, Right
  <2>3. QED
    BY <2>1, <2>2 DEF IInv
<1>2. CASE RunPod
  <2>1. pod # NoPod /\ pod \in Pod
    BY <1>2 DEF RunPod, IInv, TypeOK
  <2>2. PICK p \in Phase : pod' = [pod EXCEPT !.phase = p] /\ pod.phase \in {"Pending", "Running"}
    BY <1>2 DEF RunPod, Phase
  <2>3. pod' \in Pod /\ pod'.mine = pod.mine /\ pod'.class = pod.class
    BY <2>1, <2>2 DEF Pod
  <2>4. LoopInv' /\ TypeOK'
    BY <1>2, <2>3, LoopStays, TypeNext DEF RunPod, IInv, TypeOK
  <2>5. PodInv' /\ ClassInv'
    BY <1>2, <2>1, <2>2, <2>3 DEF RunPod, IInv, PodInv, ReapsItsOwn, ClassInv, Right
  <2>6. QED
    BY <2>4, <2>5 DEF IInv
<1>3. CASE DropPod
  <2>1. pod # NoPod /\ pod \in Pod
    BY <1>3 DEF DropPod, IInv, TypeOK
  <2>2. \/ pod' = NoPod
        \/ /\ pod' \in Pod /\ pod'.mine = pod.mine
           /\ pod'.class = pod.class /\ pod'.phase = pod.phase
    BY <1>3, <2>1 DEF DropPod, Pod
  <2>3. LoopInv' /\ TypeOK'
    BY <1>3, <2>2, LoopStays, TypeNext DEF DropPod, IInv, TypeOK
  <2>4. PodInv' /\ ClassInv'
    BY <1>3, <2>1, <2>2 DEF DropPod, IInv, PodInv, ReapsItsOwn, ClassInv, Right
  <2>5. QED
    BY <2>3, <2>4 DEF IInv
<1>4. CASE Crash
  <2>1. job' \in {"begin", "off"} /\ loop' = NoLoop
    BY <1>4 DEF Crash, Launch
  <2>2. \/ pod' = NoPod /\ pod = NoPod
        \/ pod # NoPod /\ pod' \in Pod /\ ~pod'.mine /\ pod'.class = pod.class
    BY <1>4 DEF Crash, Pod, IInv, TypeOK
  <2>3. LoopInv'
    BY <2>1, LoopEnds DEF Loops
  <2>4. crashes' \in 0..MaxCrashes
    BY <1>4, BoundsAssumption DEF Crash, IInv, TypeOK
  <2>5. TypeOK'
    BY <1>4, <2>1, <2>2, <2>3, <2>4, TypeNext DEF Crash, IInv, TypeOK, JobState, Class
  <2>6. PodInv' /\ ClassInv'
    BY <1>4, <2>1, <2>2 DEF Crash, IInv, PodInv, ReapsItsOwn, ClassInv, Right
  <2>7. QED
    BY <2>3, <2>5, <2>6 DEF IInv
<1>5. QED
  BY <1>1, <1>2, <1>3, <1>4

-----------------------------------------------------------------------------
(* What follows.                                                           *)

\* The job has not begun and has no pod.
LEMMA Initial ==
    ASSUME Init
    PROVE  IInv
<1>1. job \in {"begin", "off"} /\ loop = [steps |-> 0, delay |-> 0, tries |-> 0]
  BY DEF Init, Launch, NoLoop
<1>2. LoopInv
  <2>1. loop \in [steps : 0..50, delay : 0..600, tries : 0..50] /\ loop.delay = 0
    BY <1>1
  <2>2. QED
    BY <1>1, <2>1 DEF LoopInv, Loops
<1>3. TypeOK
  <2>1. loop.steps \in 0..50 /\ loop.tries \in 0..50 /\ loop.delay = 0
    BY <1>1
  <2>2. loop.delay \in 0..(IF job = "sweep" THEN Cap("reap") ELSE Cap(job))
    BY <2>1 DEF Cap
  <2>3. faults \in 0..MaxFaults /\ crashes \in 0..MaxCrashes
    BY BoundsAssumption DEF Init
  <2>4. job \in JobState
    BY <1>1 DEF JobState
  <2>5. QED
    BY <2>1, <2>2, <2>3, <2>4 DEF Init, TypeOK, Class
<1>4. PodInv /\ ClassInv
  BY <1>1 DEF Init, PodInv, ReapsItsOwn, ClassInv
<1>5. QED
  BY <1>2, <1>3, <1>4 DEF IInv

\* Every step of the job, of the cluster and of the process keeps the invariant.
LEMMA Inductive ==
    ASSUME IInv, [Next]_vars
    PROVE  IInv'
<1>1. CASE runGFD
  BY <1>1, StartSteps, LabelSteps, OldPodSteps, CreatePodStep, ReapSteps DEF runGFD
<1>2. CASE LabelNode \/ RunPod \/ DropPod \/ Crash
  BY <1>2, ClusterSteps
<1>3. CASE UNCHANGED vars
  <2>1. LoopInv' /\ TypeOK'
    BY <1>3, LoopStays, TypeNext DEF vars, IInv, TypeOK
  <2>2. PodInv' /\ ClassInv'
    BY <1>3 DEF vars, IInv, PodInv, ReapsItsOwn, ClassInv, Right
  <2>3. QED
    BY <2>1, <2>2 DEF IInv
<1>4. QED
  BY <1>1, <1>2, <1>3 DEF Next

\* The backoffs, the pod and what is found of the labels, whatever calls fail or lose answers.
THEOREM Invariance == Spec => []IInv
<1>1. Init => IInv
  BY Initial
<1>2. IInv /\ [Next]_vars => IInv'
  BY Inductive
<1>3. QED
  BY <1>1, <1>2, PTL DEF Spec

\* Every variable keeps its type, and no backoff of gfd.go waits longer than its cap.
THEOREM TypeCorrect == Spec => []TypeOK
<1>1. IInv => TypeOK
  BY DEF IInv
<1>2. QED
  BY <1>1, Invariance, PTL

\* CheckAndDeleteCompletedPod, which knows the pod by its name, only ever looks at
\* the pod that its own process created.
THEOREM OwnPodReaped == Spec => []ReapsItsOwn
<1>1. IInv => ReapsItsOwn
  BY DEF IInv, PodInv
<1>2. QED
  BY <1>1, Invariance, PTL

\* createGFDPod chooses the runtime class by the labels, whatever happens to the node
\* in the meantime, as long as the API server answers.
THEOREM ClassIsRight == Spec => []ClassFollowsLabels
<1>1. IInv => ClassFollowsLabels
  BY DEF IInv, ClassInv, ClassFollowsLabels, Right
<1>2. QED
  BY <1>1, Invariance, PTL

\* runGFD reports success only after its own pod has succeeded and was deleted.
THEOREM SuccessIsReaped == Spec => DoneIsReaped
<1> DEFINE Reaped == job # "done" /\ job' = "done" =>
                        /\ pod # NoPod /\ pod.mine /\ pod.phase = "Succeeded"
                        /\ pod'.leaving
<1>1. IInv /\ [Next]_vars => [Reaped]_vars
  <2> SUFFICES ASSUME IInv, [Next]_vars, job # "done", job' = "done" PROVE Reaped
    OBVIOUS
  <2>1. SweepPod
    <3>1. ~UNCHANGED vars
      BY DEF vars
    <3>2. ~Configure /\ ~GetImage /\ ~WaitForKata /\ ~ReadyState /\ ~Technology
      BY DEF Configure, GetImage, WaitForKata, Retry, ReadyState, IfReady, Technology
    <3>3. ~FindOld /\ ~DeleteOld /\ ~CreatePod /\ ~CheckPod
      BY DEF FindOld, DeleteOld, CreatePod, CheckPod, IfGone, Retry
    <3>4. ~LabelNode /\ ~RunPod /\ ~DropPod /\ ~Crash
      BY DEF LabelNode, RunPod, DropPod, Crash, Launch
    <3>5. QED
      BY <3>1, <3>2, <3>3, <3>4 DEF Next, runGFD
  <2>2. job = "sweep" /\ Delete
    BY <2>1 DEF SweepPod, At, Retry
  <2>3. pod # NoPod /\ pod'.leaving
    BY <2>2, DeleteMarks DEF IInv, TypeOK
  <2>4. pod.mine /\ pod.phase = "Succeeded"
    BY <2>2, <2>3 DEF IInv, PodInv, ReapsItsOwn
  <2>5. QED
    BY <2>3, <2>4
<1>2. QED
  BY <1>1, Invariance, PTL DEF Spec, DoneIsReaped

\* No step of runGFD touches the pod it has created before that has succeeded.
THEOREM OwnPodSurvives == Spec => OwnPodIsNotKilled
<1> DEFINE Survives == runGFD /\ pod # NoPod /\ pod.mine
                          => pod' = pod \/ pod.phase = "Succeeded"
<1>1. IInv /\ [Next]_vars => [Survives]_vars
  <2> SUFFICES ASSUME IInv, runGFD, pod # NoPod, pod.mine, pod.phase # "Succeeded"
               PROVE  pod' = pod
    OBVIOUS
  <2>1. CASE Configure \/ GetImage \/ WaitForKata \/ ReadyState \/ Technology \/ FindOld \/ CheckPod
    BY <2>1 DEF Configure, GetImage, WaitForKata, ReadyState, Technology, FindOld, CheckPod
  <2>2. CASE DeleteOld
    BY <2>2 DEF DeleteOld, At, IInv, PodInv
  <2>3. CASE CreatePod
    BY <2>3 DEF CreatePod, Created
  <2>4. CASE SweepPod
    BY <2>4 DEF SweepPod, At, IInv, PodInv
  <2>5. QED
    BY <2>1, <2>2, <2>3, <2>4 DEF runGFD
<1>2. QED
  BY <1>1, Invariance, PTL DEF Spec, OwnPodIsNotKilled

-----------------------------------------------------------------------------
(* The calls that are left.                                                *)

\* A try that has not succeeded takes a step of its backoff, also from within "sweep".
LEMMA RetryUsesUp ==
    ASSUME LoopInv, NEW l \in Loops, LoopOf = l, job \in Loops \cup {"sweep"}, Retry(l, l)
    PROVE  CallsLeft' < CallsLeft
<1>1. loop.steps \in 0..50 /\ loop.steps > 0
  BY LoopFields DEF LoopInv
<1>2. \/ job' = "failed"
      \/ job' = l /\ loop'.steps = loop.steps - 1
  BY DEF Retry
<1>3. CASE job' = "failed"
  BY <1>1, <1>3 DEF CallsLeft, Loops
<1>4. CASE job' = l /\ loop'.steps = loop.steps - 1
  BY <1>1, <1>4 DEF CallsLeft, LoopOf, Loops
<1>5. QED
  BY <1>2, <1>3, <1>4

\* A loop that begins has the calls of all its steps before it.
LEMMA BeginSteps ==
    ASSUME NEW l \in Loops, loop' = Begin(l)
    PROVE  loop'.steps = Steps(l)
BY DEF Begin

\* Each call of runGFD leaves fewer of them, answered or not.
LEMMA CallsUsedUp ==
    ASSUME IInv, runGFD
    PROVE  CallsLeft' < CallsLeft
<1> USE DEF At
<1>1. LoopInv /\ job \in JobState
  BY DEF IInv, TypeOK
<1>2. loop.steps \in 0..50 /\ (job \in Loops \cup {"sweep"} => loop.steps > 0)
  BY <1>1, LoopFields DEF LoopInv
<1>3. CASE Configure
  BY <1>3 DEF Configure, CallsLeft
<1>4. CASE GetImage
  <2>1. loop'.steps = 50
    BY <1>4, BeginSteps DEF GetImage, Steps, Loops
  <2>2. QED
    BY <1>4, <2>1 DEF GetImage, CallsLeft
<1>5. CASE WaitForKata
  <2>1. CASE job' = "cc"
    BY <1>2, <1>5, <2>1 DEF WaitForKata, CallsLeft, Loops
  <2>2. CASE Retry("wait", "wait")
    BY <1>1, <1>5, <2>2, RetryUsesUp DEF WaitForKata, LoopOf, Loops
  <2>3. QED
    BY <1>5, <2>1, <2>2 DEF WaitForKata
<1>6. CASE ReadyState
  BY <1>6 DEF ReadyState, IfReady, CallsLeft
<1>7. CASE Technology
  BY <1>7 DEF Technology, CallsLeft
<1>8. CASE FindOld \/ DeleteOld
  <2>1. CASE job' = "create" /\ loop' = Begin("create")
    <3>1. loop'.steps = 50
      BY <2>1, BeginSteps DEF Steps, Loops
    <3>2. QED
      BY <1>8, <2>1, <3>1 DEF FindOld, DeleteOld, CallsLeft
  <2>2. CASE (At("get") /\ job' = "delete") \/ (At("delete") /\ job' = "failed")
    BY <2>2 DEF CallsLeft
  <2>3. QED
    BY <1>8, <2>1, <2>2 DEF FindOld, DeleteOld
<1>9. CASE CreatePod
  <2>1. CASE job' = "reap" /\ loop' = Begin("reap")
    <3>1. loop'.steps = 30
      BY <2>1, BeginSteps DEF Steps, Loops
    <3>2. QED
      BY <1>2, <1>9, <2>1, <3>1 DEF CreatePod, CallsLeft, Loops
  <2>2. CASE Retry("create", "create")
    BY <1>1, <1>9, <2>2, RetryUsesUp DEF CreatePod, LoopOf, Loops
  <2>3. QED
    BY <1>9, <2>1, <2>2 DEF CreatePod
<1>10. CASE CheckPod \/ SweepPod
  <2>1. job \in {"reap", "sweep"} /\ loop.steps > 0
    BY <1>2, <1>10 DEF CheckPod, SweepPod, Loops
  <2>2. CASE Retry("reap", "reap")
    BY <1>1, <2>1, <2>2, RetryUsesUp DEF LoopOf, Loops
  <2>3. CASE job' \in {"done", "failed"}
    BY <1>2, <2>1, <2>3 DEF CallsLeft
  <2>4. CASE job = "reap" /\ job' = "sweep" /\ loop' = loop
    BY <1>2, <2>4 DEF CallsLeft
  <2>5. QED
    BY <1>10, <2>2, <2>3, <2>4 DEF CheckPod, SweepPod, IfGone
<1>11. QED
  BY <1>3, <1>4, <1>5, <1>6, <1>7, <1>8, <1>9, <1>10 DEF runGFD

\* The backoffs of gfd.go follow one another and none starts over: runGFD takes at most
\* 167 steps in a process, however many calls fail and however the pod fares.
THEOREM CallsAreBounded == Spec => CallsRunOut
<1> DEFINE Fewer == runGFD => 0 <= CallsLeft' /\ CallsLeft' < CallsLeft
<1>1. IInv /\ IInv' /\ [Next]_vars => [Fewer]_vars
  <2> SUFFICES ASSUME IInv, IInv', runGFD PROVE Fewer
    OBVIOUS
  <2>1. job' \in JobState /\ loop'.steps \in 0..50
    BY DEF IInv, TypeOK
  <2>2. job' \in Loops \cup {"sweep"} => loop'.steps > 0
    BY DEF IInv, LoopInv
  <2>3. 0 <= CallsLeft'
    BY <2>1, <2>2 DEF CallsLeft, JobState, Loops
  <2>4. CallsLeft' < CallsLeft
    BY CallsUsedUp
  <2>5. QED
    BY <2>3, <2>4
<1>2. QED
  BY <1>1, Invariance, PTL DEF Spec, CallsRunOut
=============================================================================
