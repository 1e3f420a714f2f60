----------------------------- MODULE Screencopy -----------------------------
(***************************************************************************)
(* wlr-screencopy (protocols/screencopy.rs; the rendering in niri.rs): the *)
(* frames of each manager, which outlive it, and the queue of copies that  *)
(* wait for damage. A queue goes away with the last thing that needs it,   *)
(* from any of five places; wayland-server may call destroyed() of an      *)
(* object some time after the object is no longer alive.                   *)
(***************************************************************************)
EXTENDS Naturals, Sequences

CONSTANTS Manager, Frame, CopyOutput,
          NoQueue, NoManager

ASSUME CopyAssumption ==
    /\ NoManager \notin Manager
    /\ NoQueue \notin [pending : SUBSET Frame, copies : Seq(Frame), cast : BOOLEAN]

VARIABLES queues,      \* [manager -> [pending, copies, cast], or NoQueue]
          managers,    \* [manager -> "new", "alive", "dead", "destroyed"]
          frames,      \* [frame -> [life, manager, output, copied, answers, syncing]]
          outputs,     \* outputs that exist
          unwrapped    \* history: an unwrap() of a queue or a cast that is not there

copyVars == <<queues, managers, frames, outputs, unwrapped>>

HasQueue(m) == queues[m] # NoQueue
is_empty(queue) == queue.pending = {} /\ queue.copies = <<>>
IsAlive(m) == managers[m] = "alive"

NewQueue == [pending |-> {}, copies |-> <<>>, cast |-> FALSE]
NewFrame == [life |-> "new", manager |-> NoManager, output |-> "none", copied |-> FALSE,
             answers |-> 0, syncing |-> FALSE]

\* Vec::retain().
retain(copies, keep) ==
    LET kept[n \in 0 .. Len(copies)] ==
            IF n = 0 THEN <<>>
            ELSE IF copies[n] \in keep THEN Append(kept[n - 1], copies[n])
            ELSE kept[n - 1]
    IN  kept[Len(copies)]

\* The destructor of a screencopy that was not submitted sends failed.
Failed(fs) == [f \in Frame |-> IF f \in fs THEN [frames[f] EXCEPT !.answers = @ + 1] ELSE frames[f]]

-----------------------------------------------------------------------------
bind(m) ==
    /\ managers[m] = "new"
    /\ managers' = [managers EXCEPT ![m] = "alive"]
    /\ queues' = [queues EXCEPT ![m] = NewQueue]
    /\ UNCHANGED <<frames, outputs, unwrapped>>

\* CaptureOutput and CaptureOutputRegion, of an output that is there or whose global is still
\* being retired.
CaptureOutput(m, f, o) ==
    /\ IsAlive(m) /\ frames[f].life = "new"
    /\ \/ /\ frames' = [frames EXCEPT ![f] = [@ EXCEPT !.life = "alive", !.manager = m, !.output = o]]
          /\ queues' = [queues EXCEPT ![m].pending = @ \cup {f}]
          /\ unwrapped' = (unwrapped \/ ~HasQueue(m))
       \* The output is gone, or the region is not on it: a frame that can do nothing.
       \/ /\ frames' = [frames EXCEPT ![f] = [@ EXCEPT !.life = "alive"]]
          /\ UNCHANGED <<queues, unwrapped>>
    /\ UNCHANGED <<managers, outputs>>

\* The queue is removed with what was its last object.
Tidy(qs, m) ==
    IF qs[m] # NoQueue /\ is_empty(qs[m]) /\ ~IsAlive(m) THEN [qs EXCEPT ![m] = NoQueue] ELSE qs

\* push(): with the first copy that waits for damage, the queue counts as a screencast.
push(f) ==
    LET m == frames[f].manager IN [queues EXCEPT ![m].copies = Append(@, f), ![m].cast = TRUE]

\* Copy or CopyWithDamage of a frame that was not copied yet; frame() of the handler renders
\* it at once, fails it, or pushes it.
Copy(f, with_damage) ==
    LET m == frames[f].manager
        Finish(qs, frame) ==
            /\ queues' = IF qs[m] = NoQueue THEN qs ELSE Tidy([qs EXCEPT ![m].pending = @ \ {f}], m)
            /\ frames' = [frames EXCEPT ![f] = frame]
            /\ unwrapped' = (unwrapped \/ qs[m] = NoQueue)
        copied == [frames[f] EXCEPT !.copied = TRUE]
    IN  /\ frames[f].life = "alive" /\ m # NoManager /\ ~frames[f].copied
        /\ \/ frames[f].output \notin outputs /\ Finish(queues, [copied EXCEPT !.answers = @ + 1])
           \/ frames[f].output \in outputs /\ with_damage /\ HasQueue(m) /\ Finish(push(f), copied)
           \/ /\ frames[f].output \in outputs /\ ~with_damage
              /\ \E syncing \in BOOLEAN :
                    Finish(queues, IF syncing THEN [copied EXCEPT !.syncing = TRUE]
                                   ELSE [copied EXCEPT !.answers = @ + 1])
        /\ UNCHANGED <<managers, outputs>>

\* The client destroys an object, or is gone with all of them, or used one wrongly.
DestroyFrame(f) ==
    /\ frames[f].life = "alive"
    /\ frames' = [frames EXCEPT ![f].life = "dead"]
    /\ UNCHANGED <<queues, managers, outputs, unwrapped>>

DestroyManager(m) ==
    /\ IsAlive(m)
    /\ managers' = [managers EXCEPT ![m] = "dead"]
    /\ UNCHANGED <<queues, frames, outputs, unwrapped>>

Disconnect ==
    /\ managers' = [m \in Manager |-> IF IsAlive(m) THEN "dead" ELSE managers[m]]
    /\ frames' = [f \in Frame |-> IF frames[f].life = "alive" THEN [frames[f] EXCEPT !.life = "dead"] ELSE frames[f]]
    /\ UNCHANGED <<queues, outputs, unwrapped>>

\* destroyed() of a manager: its queue stays for as long as there are frames.
ManagerDestroyed(m) ==
    /\ managers[m] = "dead"
    /\ managers' = [managers EXCEPT ![m] = "destroyed"]
    /\ queues' = Tidy(queues, m)
    /\ UNCHANGED <<frames, outputs, unwrapped>>

\* destroyed() of a frame, with remove_frame(): also a copy that waits for damage.
FrameDestroyed(f) ==
    LET m == frames[f].manager
    IN  /\ frames[f].life = "dead"
        /\ frames' = [frames EXCEPT ![f].life = "destroyed"]
        /\ queues' = IF m = NoManager \/ queues[m] = NoQueue THEN queues
                     ELSE Tidy([queues EXCEPT ![m].pending = @ \ {f},
                                              ![m].copies = retain(@, Frame \ {f})], m)
        /\ UNCHANGED <<managers, outputs, unwrapped>>

cleanup_queues(qs) ==
    [m \in Manager |-> IF qs[m] # NoQueue /\ is_empty(qs[m]) /\ ~IsAlive(m) THEN NoQueue ELSE qs[m]]

\* What the first copy of a queue comes to when its output is redrawn: there is no damage, it
\* is done at once or when the GPU is, or it fails.
Outcome == {"no damage", "done", "syncing"}

\* render_for_screencopy_with_damage(), with pop().
RedrawWithDamage(o) ==
    LET First(m) == queues[m].copies[1]
        Waiting == {m \in Manager : HasQueue(m) /\ queues[m].copies # <<>> /\ frames[First(m)].output = o}
    IN  \E outcome \in [Waiting -> Outcome] :
          LET popped == {m \in Waiting : outcome[m] # "no damage"}
              Of(f) == {m \in popped : First(m) = f}
          IN  /\ popped # {}
              /\ queues' = cleanup_queues([m \in Manager |->
                      IF m \in popped THEN [queues[m] EXCEPT !.copies = Tail(@)] ELSE queues[m]])
              /\ frames' = [f \in Frame |->
                      IF Of(f) = {} THEN frames[f]
                      ELSE IF \E m \in Of(f) : outcome[m] = "syncing" THEN [frames[f] EXCEPT !.syncing = TRUE]
                      ELSE [frames[f] EXCEPT !.answers = @ + 1]]
              /\ unwrapped' = (unwrapped \/ \E m \in popped : ~queues[m].cast)
              /\ UNCHANGED <<managers, outputs>>

\* The GPU is done with a copy; the frame may be gone by then.
SyncReached(f) ==
    /\ frames[f].syncing
    /\ frames' = [frames EXCEPT ![f].syncing = FALSE, ![f].answers = @ + 1]
    /\ UNCHANGED <<queues, managers, outputs, unwrapped>>

\* Mutant: the copies of an output that is gone stay in the queue.
RemoveOutputKeepsCopies(o) ==
    /\ o \in outputs /\ outputs' = outputs \ {o}
    /\ queues' = cleanup_queues(queues)
    /\ UNCHANGED <<frames, managers, unwrapped>>

\* remove_output(): what waits for it fails.
remove_output(o) ==
    LET stay == {f \in Frame : frames[f].output # o}
        gone == {f \in Frame \ stay : \E m \in Manager : HasQueue(m)
                                 /\ \E i \in DOMAIN queues[m].copies : queues[m].copies[i] = f}
    IN  /\ o \in outputs /\ outputs' = outputs \ {o}
        /\ queues' = cleanup_queues([m \in Manager |->
               IF HasQueue(m) THEN [queues[m] EXCEPT !.copies = retain(@, stay)] ELSE NoQueue])
        /\ frames' = Failed(gone)
        /\ UNCHANGED <<managers, unwrapped>>

\* An output that is connected again is another one: it takes a name that no frame refers to.
add_output(o) ==
    /\ o \notin outputs /\ outputs' = outputs \cup {o}
    /\ \A f \in Frame : frames[f].output = o => frames[f].life = "destroyed"
    /\ UNCHANGED <<queues, managers, frames, unwrapped>>

\* clear_expired_casts(): no copy was asked for in ten seconds.
clear_expired_casts ==
    \E m \in Manager :
        /\ HasQueue(m) /\ queues[m].cast /\ queues[m].copies = <<>>
        /\ queues' = [queues EXCEPT ![m].cast = FALSE]
        /\ UNCHANGED <<managers, frames, outputs, unwrapped>>

-----------------------------------------------------------------------------
CopyInit ==
    /\ managers = [m \in Manager |-> "new"] /\ queues = [m \in Manager |-> NoQueue]
    /\ frames = [f \in Frame |-> NewFrame] /\ outputs = CopyOutput /\ unwrapped = FALSE

CopyNext ==
    \/ \E m \in Manager : bind(m) \/ DestroyManager(m) \/ ManagerDestroyed(m)
    \/ \E m \in Manager, f \in Frame, o \in CopyOutput : CaptureOutput(m, f, o)
    \/ \E f \in Frame : DestroyFrame(f) \/ FrameDestroyed(f) \/ SyncReached(f)
                        \/ \E with_damage \in BOOLEAN : Copy(f, with_damage)
    \/ \E o \in CopyOutput : RedrawWithDamage(o) \/ remove_output(o) \/ add_output(o)
    \/ Disconnect \/ clear_expired_casts

CopySpec == CopyInit /\ [][CopyNext]_copyVars

-----------------------------------------------------------------------------
(***************************************************************************)
(* Properties.                                                             *)
(***************************************************************************)
\* "screencopy queue must not be deleted as long as frames exist": whatever order managers,
\* frames and outputs go away in, a frame that can still be copied finds its queue, and a
\* copy that is popped finds the cast of its queue. Both are unwrapped.
QueuesOutliveFrames == ~unwrapped

\* A copy is answered with ready or failed, once: until then it is in the queue for an output
\* that exists, or the GPU is at work on it. (A client whose frame it destroyed hears nothing.)
CopiesAnswered ==
    \A f \in Frame :
        LET m == frames[f].manager
            queued == m # NoManager /\ HasQueue(m) /\ \E i \in DOMAIN queues[m].copies : queues[m].copies[i] = f
        IN  /\ frames[f].answers <= 1
            /\ frames[f].copied /\ frames[f].life = "alive" =>
                  \/ frames[f].answers = 1
                  \/ frames[f].syncing
                  \/ queued /\ frames[f].output \in outputs

\* Whatever goes away first of the manager, the frame and the output, a copy can be made as
\* long as somebody may ask for it, and is answered.
CopiesServed == QueuesOutliveFrames /\ CopiesAnswered
=============================================================================
