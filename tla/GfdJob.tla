------------------------------- MODULE GfdJob -------------------------------
(***************************************************************************)
(* runGFD of pkg/device_plugin/gfd.go: a goroutine that waits until the    *)
(* node has the Kata runtime, launches the GPU feature discovery pod and   *)
(* deletes it when it has succeeded.  createDevicePlugins starts it if     *)
(* main found ENABLE_GFD to be true.                                       *)
(*                                                                         *)
(* The pod's name is that of the node, so a pod that an earlier process    *)
(* left behind stands in the way.  Every call of the API server may fail,  *)
(* before or after it took effect: Faults counts these.                    *)
(***************************************************************************)
EXTENDS Integers

CONSTANTS
    Flags,         \* the values of ENABLE_GFD, or that it is not set, ...
    TrueFlags,     \* ... and those that strconv.ParseBool takes for true
    MaxFaults,     \* bound: calls of the API server that fail
    MaxCrashes     \* bound: crashes of the plugin's process

ASSUME BoundsAssumption == MaxFaults \in Nat /\ MaxCrashes \in Nat

Loops    == {"wait", "create", "reap"}
JobState == {"begin", "image", "cc", "snp", "tdx", "get", "delete", "sweep",
             "done", "failed", "off"} \cup Loops
Class    == {"gpu", "gpu-snp", "gpu-tdx"}
Phase    == {"Pending", "Running", "Succeeded", "Failed"}
NoPod    == [phase |-> "none"]
Pod      == [phase : Phase, leaving : BOOLEAN, mine : BOOLEAN, class : Class]

\* The parameters of the three backoffs, in tenths of a second.
Duration(l) == IF l = "reap" THEN 20 ELSE 10
Cap(l)      == IF l = "reap" THEN 600 ELSE 300
Steps(l)    == IF l = "reap" THEN 30 ELSE 50

VARIABLES
    flag,       \* the environment's ENABLE_GFD
    job,        \* the API call, or the loop of calls, that runGFD is at
    loop,       \* the backoff it is in: the delay and the steps left, and the tries made
    image,      \* are there an image and a GPU for the pod?
    class,      \* the runtime class found so far
    kata,       \* does the node have the label of the Kata runtime?
    labels,     \* which of the labels "cc", "snp" and "tdx" of the node are "true"
    pod,        \* the pod named after the node
    faults, crashes

vars == <<flag, job, loop, image, class, kata, labels, pod, faults, crashes>>

NoLoop   == [steps |-> 0, delay |-> 0, tries |-> 0]

\* MUTANT: the delay is in minutes.
Begin_Minutes(l) == [steps |-> Steps(l), delay |-> 60 * Duration(l), tries |-> 0]

\* A loop starts.
Begin(l) == [steps |-> Steps(l), delay |-> Duration(l), tries |-> 0]

-----------------------------------------------------------------------------
\* The job is at this call, which the API server answers or not.
At(call)   == job = call
Answered   == faults' = faults
Unanswered == faults < MaxFaults /\ faults' = faults + 1

\* ExponentialBackoff after a try that has not succeeded: a delay that would exceed
\* the cap is the last one.
Retry(l, at) ==
    LET next  == (loop.delay * 3) \div 2
        over  == next > Cap(l)
        steps == IF over THEN 0 ELSE loop.steps - 1
    IN  IF loop.steps = 1 \/ steps = 0
        THEN job' = "failed" /\ loop' = [NoLoop EXCEPT !.tries = loop.tries + 1]
        ELSE /\ job' = at
             /\ loop' = [steps |-> steps, delay |-> IF over THEN Cap(l) ELSE next,
                         tries |-> loop.tries + 1]

\* main and createDevicePlugins: an error of ParseBool means that the job is not wanted.
Launch(f) == IF f \in TrueFlags THEN "begin" ELSE "off"

\* runGFD starts, unless the environment or the credentials are incomplete.
Configure ==
    /\ At("begin")
    /\ job' \in {"image", "failed"}
    /\ UNCHANGED <<flag, loop, image, class, kata, labels, pod, faults, crashes>>

\* getGFDImageName: with no answer the job goes on with an empty image, and without
\* a GPU (getGPUDeviceName) it goes on too.
GetImage ==
    /\ At("image")
    /\ \/ Answered /\ image' \in BOOLEAN
       \/ Unanswered /\ image' = FALSE
    /\ job' = "wait"
    /\ loop' = Begin("wait")
    /\ UNCHANGED <<flag, class, kata, labels, pod, crashes>>

\* MUTANT: the label is waited for without a backoff.
WaitForKata_Forever ==
    /\ At("wait")
    /\ \/ /\ Answered /\ kata
          /\ job' = "cc" /\ loop' = NoLoop
       \/ /\ Unanswered \/ (Answered /\ ~kata)
          /\ UNCHANGED <<job, loop>>
    /\ UNCHANGED <<flag, image, class, kata, labels, pod, crashes>>

\* WaitForKataRuntime: one try.
WaitForKata ==
    /\ At("wait")
    /\ \/ /\ Answered /\ kata
          /\ job' = "cc" /\ loop' = NoLoop
       \/ /\ Unanswered \/ (Answered /\ ~kata)
          /\ Retry("wait", "wait")
    /\ UNCHANGED <<flag, image, class, kata, labels, pod, crashes>>

-----------------------------------------------------------------------------
(* createGFDPod: getNodeLabel takes a call with no answer for a missing label. *)

\* Each value that getNodeLabel may return.
LabelIs(l, value) == IF value THEN Answered /\ l \in labels
                              ELSE Unanswered \/ (Answered /\ l \notin labels)

\* MUTANT: confidential computing need not be ready.
IfReady_Skipped(v) == "snp"

\* Without confidential computing the other labels do not matter.
IfReady(v) == IF v THEN "snp" ELSE "get"

\* nvidia.com/cc.ready.state.
ReadyState ==
    /\ At("cc")
    /\ \E v \in BOOLEAN : LabelIs("cc", v) /\ job' = IfReady(v)
    /\ class' = "gpu"
    /\ UNCHANGED <<flag, loop, image, kata, labels, pod, crashes>>

\* The label of AMD, and without it that of Intel.
Technology ==
    /\ job \in {"snp", "tdx"}
    /\ \E v \in BOOLEAN :
          /\ LabelIs(job, v)
          /\ job' = IF v \/ job = "tdx" THEN "get" ELSE "tdx"
          /\ class' = CASE v /\ job = "snp" -> "gpu-snp"
                        [] v /\ job = "tdx" -> "gpu-tdx"
                        [] OTHER            -> "gpu"
    /\ UNCHANGED <<flag, loop, image, kata, labels, pod, crashes>>

-----------------------------------------------------------------------------
(* LaunchPodWithRetries.                                                   *)

\* An earlier pod is looked for; no answer counts as none.
FindOld ==
    /\ At("get")
    /\ \/ Answered /\ pod # NoPod /\ job' = "delete" /\ loop' = NoLoop
       \/ /\ (Answered /\ pod = NoPod) \/ Unanswered
          /\ job' = "create" /\ loop' = Begin("create")
    /\ UNCHANGED <<flag, image, class, kata, labels, pod, crashes>>

\* The deletion of a pod takes time: its kubelet has the last word.
Delete == pod # NoPod /\ pod' = [pod EXCEPT !.leaving = TRUE]

\* It is deleted, once: an error ends the job.
DeleteOld ==
    /\ At("delete")
    /\ \/ /\ Answered /\ Delete
          /\ job' = "create" /\ loop' = Begin("create")
       \/ /\ (Answered /\ pod = NoPod /\ pod' = pod) \/ (Unanswered /\ (pod' = pod \/ Delete))
          /\ job' = "failed" /\ loop' = NoLoop
    /\ UNCHANGED <<flag, image, class, kata, labels, crashes>>

NewPod == [phase |-> "Pending", leaving |-> FALSE, mine |-> TRUE, class |-> class]

\* MUTANT: a pod that exists already is as good as one that was created.
Created_Exists == Answered /\ image /\ pod' = IF pod = NoPod THEN NewPod ELSE pod

\* The answer that the pod was created.
Created == Answered /\ image /\ pod = NoPod /\ pod' = NewPod

\* One try to create the pod.  The server refuses a pod without an image and a
\* second pod of the name, also one whose creation was never answered.
CreatePod ==
    /\ At("create")
    /\ \/ /\ Created
          /\ job' = "reap" /\ loop' = Begin("reap")
       \/ /\ \/ Answered /\ (~image \/ pod # NoPod) /\ pod' = pod
             \/ Unanswered /\ (pod' = pod \/ (pod = NoPod /\ image /\ pod' = NewPod))
          /\ Retry("create", "create")
    /\ UNCHANGED <<flag, image, class, kata, labels, crashes>>

-----------------------------------------------------------------------------
(* CheckAndDeleteCompletedPod.                                             *)

\* MUTANT: a pod that is gone counts as reaped.
IfGone_Done == "done"

\* An error of Get ends the job, the pod being there or not.
IfGone == "failed"

\* MUTANT: the phase is not looked at.
Completed_AnyPhase == TRUE

\* The phase that the job waits for.
Completed == pod.phase = "Succeeded"

\* One look at the pod.
CheckPod ==
    /\ At("reap")
    /\ \/ Answered /\ pod # NoPod /\ Completed /\ job' = "sweep" /\ loop' = loop
       \/ Answered /\ pod # NoPod /\ ~Completed /\ Retry("reap", "reap")
       \/ /\ (Answered /\ pod = NoPod) \/ Unanswered
          /\ job' = IfGone /\ loop' = NoLoop
    /\ UNCHANGED <<flag, image, class, kata, labels, pod, crashes>>

\* MUTANT: after an error the wait for the pod begins anew.
SweepPod_Anew ==
    /\ At("sweep")
    /\ \/ Answered /\ Delete /\ job' = "done" /\ loop' = NoLoop
       \/ /\ (Answered /\ pod = NoPod /\ pod' = pod) \/ (Unanswered /\ (pod' = pod \/ Delete))
          /\ job' = "reap" /\ loop' = Begin("reap")
    /\ UNCHANGED <<flag, image, class, kata, labels, crashes>>

\* The deletion of the pod that has succeeded; after an error it is looked at again.
SweepPod ==
    /\ At("sweep")
    /\ \/ Answered /\ Delete /\ job' = "done" /\ loop' = NoLoop
       \/ /\ (Answered /\ pod = NoPod /\ pod' = pod) \/ (Unanswered /\ (pod' = pod \/ Delete))
          /\ Retry("reap", "reap")
    /\ UNCHANGED <<flag, image, class, kata, labels, crashes>>

-----------------------------------------------------------------------------
(* The cluster and the process.                                            *)

\* The label of the Kata runtime comes and goes.
LabelNode ==
    /\ kata' = ~kata
    /\ UNCHANGED <<flag, job, loop, image, class, labels, pod, faults, crashes>>

\* The pod's kubelet runs it, again after a failure of its container; it fails for
\* good if the node does not admit it or evicts it.
RunPod ==
    /\ pod # NoPod
    /\ \/ pod.phase = "Pending" /\ \E p \in {"Running", "Failed"} : pod' = [pod EXCEPT !.phase = p]
       \/ pod.phase = "Running" /\ \E p \in {"Succeeded", "Failed"} : pod' = [pod EXCEPT !.phase = p]
    /\ UNCHANGED <<flag, job, loop, image, class, kata, labels, faults, crashes>>

\* Somebody else deletes the pod, and a pod that was deleted goes away.
DropPod ==
    /\ pod # NoPod
    /\ pod' = IF pod.leaving THEN NoPod ELSE [pod EXCEPT !.leaving = TRUE]
    /\ UNCHANGED <<flag, job, loop, image, class, kata, labels, faults, crashes>>

\* The process dies and is started anew.
Crash ==
    /\ crashes < MaxCrashes
    /\ crashes' = crashes + 1
    /\ job' = Launch(flag) /\ loop' = NoLoop
    /\ image' = FALSE /\ class' = "gpu"
    /\ pod' = IF pod = NoPod THEN pod ELSE [pod EXCEPT !.mine = FALSE]
    /\ UNCHANGED <<flag, kata, labels, faults>>

Init ==
    /\ flag \in Flags
    /\ job = Launch(flag) /\ loop = NoLoop
    /\ image = FALSE /\ class = "gpu"
    /\ kata \in BOOLEAN
    /\ labels \in SUBSET {"cc", "snp", "tdx"}
    /\ pod = NoPod
    /\ faults = 0 /\ crashes = 0

runGFD == \/ Configure \/ GetImage \/ WaitForKata
          \/ ReadyState \/ Technology
          \/ FindOld \/ DeleteOld \/ CreatePod
          \/ CheckPod \/ SweepPod

Next == runGFD \/ LabelNode \/ RunPod \/ DropPod \/ Crash

\* The goroutine runs and each call returns; nothing is owed by the cluster.
Spec == Init /\ [][Next]_vars /\ WF_vars(runGFD)

-----------------------------------------------------------------------------
(* What must hold.                                                         *)

\* Every variable has its type; no delay is above the cap of its backoff.
TypeOK ==
    /\ flag \in Flags /\ job \in JobState
    /\ loop.steps \in 0..50 /\ loop.tries \in 0..50
    /\ loop.delay \in 0..(IF job = "sweep" THEN Cap("reap") ELSE Cap(job))
    /\ image \in BOOLEAN /\ kata \in BOOLEAN
    /\ class \in Class
    /\ labels \in SUBSET {"cc", "snp", "tdx"}
    /\ pod = NoPod \/ pod \in Pod
    /\ faults \in 0..MaxFaults /\ crashes \in 0..MaxCrashes

\* CheckAndDeleteCompletedPod works on the name alone, but the pod of that name is
\* the one this process created, not one that a dead process left behind and whose
\* deletion still takes its time.
ReapsItsOwn == job \in {"reap", "sweep"} /\ pod # NoPod => pod.mine

\* "GFD pod launched and cleaned up successfully" (line 127) only if this process'
\* own pod has succeeded and was deleted.
DoneIsReaped ==
    [][job # "done" /\ job' = "done" =>
          /\ pod # NoPod /\ pod.mine /\ pod.phase = "Succeeded"
          /\ pod'.leaving]_vars

\* The job never deletes the pod it has created itself before it has succeeded,
\* also if it runs into the pod when it tries to create it once more.
OwnPodIsNotKilled ==
    [][runGFD /\ pod # NoPod /\ pod.mine => pod' = pod \/ pod.phase = "Succeeded"]_vars

\* The runtime class follows the labels of the node, unless a call was not answered.
ClassFollowsLabels ==
    faults = 0 /\ pod # NoPod =>
        pod.class = CASE {"cc", "snp"} \subseteq labels -> "gpu-snp"
                      [] "cc" \in labels /\ "snp" \notin labels /\ "tdx" \in labels -> "gpu-tdx"
                      [] OTHER -> "gpu"

\* How many more calls the job makes at most, its start counted as one: one for each step
\* of a backoff, and two for one that finds a completed pod.
CallsLeft ==
    CASE job = "begin"  -> 167
      [] job = "image"  -> 166
      [] job = "wait"   -> 115 + loop.steps
      [] job = "cc"     -> 115
      [] job = "snp"    -> 114
      [] job = "tdx"    -> 113
      [] job = "get"    -> 112
      [] job = "delete" -> 111
      [] job = "create" -> 60 + loop.steps
      [] job = "reap"   -> 2 * loop.steps
      [] job = "sweep"  -> 2 * loop.steps - 1
      [] OTHER          -> 0

\* Every call uses up one of them, whatever the answer is and however many fail: no backoff
\* starts over when a later call fails.
CallsRunOut == [][runGFD => 0 <= CallsLeft' /\ CallsLeft' < CallsLeft]_vars

\* Whatever the cluster does, the goroutine comes to an end.
JobEnds == <>[](job \in {"done", "failed", "off"})

-----------------------------------------------------------------------------
(* What comments of the code say of it, and it does not do.                *)

\* "Steps: 50, // Total number of retries" (lines 258, 289) and "Steps: 30, // Total
\* number of attempts" (330): a backoff gives up after its number of tries.
TriesAreAsStated ==
    [][\A l \in Loops : job = l /\ job' = "failed" /\ loop'.tries > 0 =>
          loop'.tries = Steps(l)]_vars
============================================================================
