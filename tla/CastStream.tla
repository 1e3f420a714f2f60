----------------------------- MODULE CastStream -----------------------------
(***************************************************************************)
(* One PipeWire stream of a screencast of an output                        *)
(* (screencasting/pw_utils.rs): the size and format that are negotiated    *)
(* with PipeWire while the output may be resized again, the buffers that   *)
(* PipeWire adds and removes, frames that the GPU finishes in any order,   *)
(* and the frame rate limit with its timer.                                *)
(*                                                                         *)
(* PipeWire is external. It answers an offer some time after it was made,  *)
(* answers the offers in order and may skip some; a new format comes after *)
(* the buffers of the former one are gone; and it asks for buffers once    *)
(* the format is settled.                                                  *)
(***************************************************************************)
EXTENDS Naturals, Sequences

CONSTANTS Size,         \* the sizes that the output may have
          Buffer,       \* the buffers of the stream
          MaxOffers,    \* bound on the offers that PipeWire has not answered
          MaxFrames     \* bound on the frames of a behaviour

ASSUME StreamAssumption == "none" \notin Size /\ MaxOffers \in Nat /\ MaxFrames \in Nat

VARIABLES cast,      \* see CastInit
          output,    \* the size of the output
          redraw,    \* a Redraw message, or a queued redraw of the output
          pw,        \* PipeWire: [offers, size, settled, streaming]
          buffers,   \* size of the memory of each buffer it has, or "none"
          free,      \* buffers that can be dequeued
          last       \* history: the sequence number of the last frame queued

streamVars == <<cast, output, redraw, pw, buffers, free, last>>

-----------------------------------------------------------------------------
(***************************************************************************)
(* Negotiation.                                                            *)
(***************************************************************************)
\* CastState: expected_format_size() of each; Ready remembers the damage that it has seen.
State(tag, size) == [tag |-> tag, size |-> size]

expected_format_size == cast.state.size
pending_size == IF cast.state.tag = "Ready" THEN "none" ELSE cast.state.size

\* A stream is stopped by a message to the compositor, which drops it.
stop_cast == cast' = [cast EXCEPT !.stopped = TRUE]

Offer(size, fixated) == [size |-> size, fixated |-> fixated]

\* PipeWire answers an offer with a format and drops its buffers.
Negotiated(n) ==
    /\ pw' = [pw EXCEPT !.offers = SubSeq(@, n + 1, Len(@)), !.size = pw.offers[n].size,
                        !.settled = FALSE]
    /\ buffers' = [b \in Buffer |-> "none"] /\ free' = {}
    /\ UNCHANGED <<output, redraw, last>>

\* A format comes with its frame rate, which may be lower than the one that a timer was set by.
Slower == {cast.slower, cast.timer # "none"}

\* param_changed() with a format that leaves the modifier open: pick one and confirm it.
FixateModifier(n) ==
    LET offer == pw.offers[n]
    IN  /\ ~offer.fixated /\ offer.size = expected_format_size
        /\ buffers' = [b \in Buffer |-> "none"] /\ free' = {}
        /\ \E slower \in Slower :
               cast' = [cast EXCEPT !.state = State("ConfirmationPending", offer.size),
                                    !.rendering = <<>>, !.slower = slower]
        /\ pw' = [pw EXCEPT !.offers = Append(SubSeq(@, n + 1, Len(@)), Offer(offer.size, TRUE)),
                            !.size = offer.size, !.settled = FALSE]
        /\ UNCHANGED <<output, redraw, last>>

\* param_changed() with a format that is complete: ready, with the damage trackers of before
\* if nothing changed, and buffers are asked for.
FormatReady(n) ==
    LET offer == pw.offers[n]
        same == cast.state.tag # "ResizePending"
    IN  /\ offer.fixated /\ offer.size = expected_format_size
        /\ \E slower \in Slower :
               cast' = [cast EXCEPT !.state = State("Ready", IF same THEN @.size ELSE offer.size),
                                    !.damaged = @ \/ cast.state.tag # "Ready",
                                    !.rendering = <<>>, !.slower = slower]
        /\ pw' = [pw EXCEPT !.offers = SubSeq(@, n + 1, Len(@)), !.size = offer.size, !.settled = TRUE]
        /\ buffers' = [b \in Buffer |-> "none"] /\ free' = {}
        /\ UNCHANGED <<output, redraw, last>>

\* param_changed() with the wrong size: an answer that was overtaken, or no resize is going on.
WrongSize(n) ==
    /\ pw.offers[n].size # expected_format_size
    /\ IF cast.state.tag = "ResizePending" THEN cast' = [cast EXCEPT !.rendering = <<>>]
       ELSE cast' = [cast EXCEPT !.stopped = TRUE, !.rendering = <<>>]
    /\ Negotiated(n)

\* A test allocation, or the allocation of a buffer, fails.
AllocationFails ==
    /\ pw.offers # <<>> \/ pw.settled
    /\ stop_cast
    /\ UNCHANGED <<output, redraw, pw, buffers, free, last>>

\* ensure_size(): whether the stream has the size, and the cast and the offers after it.
ensure_size(size) ==
    IF cast.state = State("Ready", size) THEN <<"Ready", cast, pw>>
    ELSE IF pending_size = size THEN <<"Pending", cast, pw>>
    ELSE <<"Changed", [cast EXCEPT !.state = State("ResizePending", size), !.damaged = FALSE],
           [pw EXCEPT !.offers = Append(@, Offer(size, FALSE))]>>

\* set_refresh(): another frame rate is offered with the size that is expected.
set_refresh ==
    /\ Len(pw.offers) < MaxOffers
    /\ pw' = [pw EXCEPT !.offers = Append(@, Offer(expected_format_size, FALSE))]
    /\ UNCHANGED <<cast, output, redraw, buffers, free, last>>

-----------------------------------------------------------------------------
(***************************************************************************)
(* The stream's state and its buffers.                                     *)
(***************************************************************************)
Streaming ==
    /\ ~pw.streaming
    /\ pw' = [pw EXCEPT !.streaming = TRUE]
    /\ cast' = [cast EXCEPT !.is_active = TRUE]
    /\ redraw' = TRUE
    /\ UNCHANGED <<output, buffers, free, last>>

Paused ==
    /\ pw.streaming
    /\ pw' = [pw EXCEPT !.streaming = FALSE]
    /\ cast' = [cast EXCEPT !.is_active = FALSE]
    /\ UNCHANGED <<output, redraw, buffers, free, last>>

StreamError ==
    /\ cast' = IF cast.is_active THEN [cast EXCEPT !.is_active = FALSE, !.stopped = TRUE] ELSE cast
    /\ pw' = [pw EXCEPT !.streaming = FALSE]
    /\ UNCHANGED <<output, redraw, buffers, free, last>>

\* Mutant: the stream that kept running is not redrawn when it gets a buffer.
AddBufferQuietly(b) ==
    /\ pw.settled /\ cast.state.tag = "Ready" /\ buffers[b] = "none"
    /\ buffers' = [buffers EXCEPT ![b] = cast.state.size] /\ free' = free \cup {b}
    /\ UNCHANGED <<cast, output, redraw, pw, last>>

\* add_buffer() gives a buffer its memory; not while another size is being negotiated, and
\* PipeWire has no use for such a buffer then.
add_buffer(b) ==
    /\ pw.settled /\ cast.state.tag = "Ready" /\ buffers[b] = "none"
    /\ buffers' = [buffers EXCEPT ![b] = cast.state.size] /\ free' = free \cup {b}
    /\ redraw' = (redraw \/ (pw.streaming /\ \A c \in Buffer : buffers[c] = "none"))
    /\ UNCHANGED <<cast, output, pw, last>>

\* remove_buffer(), which PipeWire calls for all the buffers it has (those that are being
\* rendered to as well) when it is paused for good or negotiates anew.
remove_buffer ==
    /\ \E b \in Buffer : buffers[b] # "none"
    /\ buffers' = [b \in Buffer |-> "none"] /\ free' = {}
    /\ cast' = [cast EXCEPT !.rendering = <<>>]
    /\ UNCHANGED <<output, redraw, pw, last>>

\* The consumer is done with a frame (external).
Recycle(b) ==
    /\ buffers[b] # "none" /\ b \notin free
    /\ \A i \in DOMAIN cast.rendering : cast.rendering[i].buffer # b
    /\ free' = free \cup {b}
    /\ UNCHANGED <<cast, output, redraw, pw, buffers, last>>

-----------------------------------------------------------------------------
(***************************************************************************)
(* Frames.                                                                 *)
(***************************************************************************)
\* Something changes on the output, or its mode does.
Damage ==
    /\ cast' = IF cast.state.tag = "Ready" THEN [cast EXCEPT !.damaged = TRUE] ELSE cast
    /\ redraw' = TRUE
    /\ \E size \in Size : output' = size
    /\ UNCHANGED <<pw, buffers, free, last>>

\* queue_completed_buffers(): what is left of the list, in order, from the first buffer that
\* is still being rendered.
queue_completed_buffers(rendering) ==
    LET running == {i \in DOMAIN rendering : rendering[i].fence = "running"}
    IN  IF running = {} THEN <<>>
        ELSE SubSeq(rendering, CHOOSE i \in running : \A j \in running : i <= j, Len(rendering))

\* The frames that were queued are those that are no longer in the list.
Queued(rendering) ==
    LET left == queue_completed_buffers(rendering)
        gone == {rendering[i].seq : i \in DOMAIN rendering} \ {left[i].seq : i \in DOMAIN left}
    IN  /\ cast' = [cast EXCEPT !.rendering = left]
        /\ last' = [seq |-> IF gone = {} THEN last.seq ELSE CHOOSE s \in gone : \A t \in gone : s >= t,
                    ordered |-> last.ordered /\ \A s \in gone : s > last.seq]

\* compute_extra_delay(): the frame after the timer is not too soon, unless the rate was lowered
\* since the timer was set.
TooSoon == cast.timer = "fired" => cast.slower

\* schedule_redraw(): nothing is scheduled while there is a token, even that of a timer that fired.
schedule_redraw == [cast EXCEPT !.timer = IF @ = "none" THEN "armed" ELSE @]

\* check_time_and_schedule() lets the frame pass; dequeue_buffer_and_render() looks at the damage.
Passed == [cast EXCEPT !.damaged = FALSE, !.timer = "none", !.slower = FALSE]

\* Nothing to render, or nothing to render into.
SkipFrame ==
    /\ ~(cast.damaged /\ free # {})
    /\ cast' = Passed
    /\ UNCHANGED <<free, last>>

\* The GPU refuses the frame: its buffer goes back without one.
return_unused_buffer ==
    /\ cast.damaged /\ cast' = Passed
    /\ \E b \in free : free' = free \ {b}
    /\ UNCHANGED last

\* dequeue_buffer_and_render() and queue_after_sync().
RenderFrame ==
    /\ cast.damaged /\ cast.seq < MaxFrames
    /\ \E b \in free, fence \in {"running", "reached"} :
          /\ free' = free \ {b}
          /\ LET frame == [buffer |-> b, seq |-> cast.seq + 1, fence |-> fence, size |-> output]
                 list == Append(cast.rendering, frame)
                 left == IF fence = "running" THEN list ELSE queue_completed_buffers(list)
             IN  /\ cast' = [Passed EXCEPT !.seq = @ + 1, !.rendering = left]
                 /\ last' = IF left = list THEN last
                            ELSE [seq |-> cast.seq + 1, ordered |-> last.ordered /\ left = <<>>]

\* render_for_screen_cast(). When the new size cannot be offered the cast is stopped, after it
\* went on to the timer and found that it is not ready.
RenderForCast ==
    /\ redraw /\ Len(pw.offers) < MaxOffers
    /\ redraw' = FALSE
    /\ \/ ~cast.is_active /\ UNCHANGED <<cast, pw, free, last>>
       \/ /\ cast.is_active
          /\ LET size == ensure_size(output)
             IN  \/ size[1] # "Ready" /\ cast' = size[2] /\ pw' = size[3] /\ UNCHANGED <<free, last>>
                 \/ /\ size[1] = "Changed"
                    /\ \E timer \in {schedule_redraw.timer, "none"} :
                           cast' = [size[2] EXCEPT !.timer = timer, !.stopped = TRUE]
                    /\ UNCHANGED <<pw, free, last>>
                 \/ size[1] = "Ready" /\ TooSoon /\ cast' = schedule_redraw /\ UNCHANGED <<pw, free, last>>
                 \/ size[1] = "Ready" /\ (SkipFrame \/ return_unused_buffer \/ RenderFrame) /\ UNCHANGED pw
    /\ UNCHANGED <<output, buffers>>

\* The timer queues a redraw; the cast still has its token.
TimerFires ==
    /\ cast.timer = "armed"
    /\ cast' = [cast EXCEPT !.timer = "fired"]
    /\ redraw' = TRUE
    /\ UNCHANGED <<output, pw, buffers, free, last>>

\* The GPU is done with a frame, and the compositor hears of it: frames may overtake.
FenceReached(i) ==
    /\ cast.rendering[i].fence = "running"
    /\ Queued([cast.rendering EXCEPT ![i].fence = "reached"])
    /\ UNCHANGED <<output, redraw, pw, buffers, free>>

-----------------------------------------------------------------------------
StreamInit ==
    /\ output \in Size
    /\ cast = [state |-> State("ResizePending", output), is_active |-> FALSE, stopped |-> FALSE,
               damaged |-> FALSE, timer |-> "none", slower |-> FALSE, rendering |-> <<>>, seq |-> 0]
    /\ redraw = FALSE
    /\ pw = [offers |-> <<Offer(output, FALSE)>>, size |-> "none", settled |-> FALSE, streaming |-> FALSE]
    /\ buffers = [b \in Buffer |-> "none"] /\ free = {} /\ last = [seq |-> 0, ordered |-> TRUE]

StreamNext ==
    /\ ~cast.stopped
    /\ \/ \E n \in DOMAIN pw.offers : FixateModifier(n) \/ FormatReady(n) \/ WrongSize(n)
       \/ AllocationFails \/ set_refresh
       \/ Streaming \/ Paused \/ StreamError
       \/ \E b \in Buffer : add_buffer(b) \/ Recycle(b)
       \/ remove_buffer
       \/ Damage \/ RenderForCast \/ TimerFires
       \/ \E i \in DOMAIN cast.rendering : FenceReached(i)

StreamSpec == StreamInit /\ [][StreamNext]_streamVars

-----------------------------------------------------------------------------
(***************************************************************************)
(* Properties.                                                             *)
(***************************************************************************)
\* However often the output is resized while PipeWire negotiates, a frame is only rendered
\* at the size of the format that the consumer has, into a buffer of that size.
FramesFit ==
    \A i \in DOMAIN cast.rendering :
        cast.rendering[i].size = pw.size /\ buffers[cast.rendering[i].buffer] = pw.size

\* "The same ordering should be preserved when submitting completed buffers": frames reach
\* PipeWire in the order they were rendered in, whatever order they are finished in, and a
\* frame that nothing is missing for does not wait in the list ("effectively going stuck").
FramesFlow ==
    /\ last.ordered
    /\ cast.rendering = <<>> \/ cast.rendering[1].fence = "running"

\* What changed on the output gets to a consumer that has a buffer for it: while the stream
\* runs, either a redraw or the timer of a frame that came too soon is under way, also after
\* a new size was negotiated under the running stream. Except when a format with a lower rate
\* came while the timer of the rate before was set: the redraw of that timer may be too soon
\* once more, schedule_redraw() still finds its token, and the damage waits for another redraw.
DamageGetsOut ==
    cast.is_active /\ ~cast.stopped /\ cast.state.tag = "Ready" /\ cast.damaged /\ free # {} =>
        redraw \/ cast.timer = "armed" \/ (cast.timer = "fired" /\ cast.slower)

\* A running stream renders frames that fit, and stalls neither with the frames that are being
\* rendered nor with the damage that is still to be rendered.
StreamFlows == FramesFit /\ FramesFlow /\ DamageGetsOut
=============================================================================
