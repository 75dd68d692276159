--------------------------- MODULE ProviderStreams ---------------------------
(***************************************************************************)
(* How the answers of the AI vendors become the events that AiCalls reads  *)
(* (ai-providers/src: sse.rs and the *_sse_to_events of openai.rs,         *)
(* anthropic.rs and gemini.rs), for one answer of one vendor.              *)
(*                                                                         *)
(* The body comes in chunks; a frame counts once its blank line is there.  *)
(* Tool calls come in pieces, those of several calls among each other, and *)
(* are put together by the index the pieces bear.                          *)
(*                                                                         *)
(* The vendors are external: they send what the code reads.  A call's      *)
(* arguments are two pieces of text that parse together only.  Usage,      *)
(* models, empty and malformed frames are left out.                        *)
(***************************************************************************)
EXTENDS Naturals, Sequences, FiniteSets

CONSTANTS
  Slots,      \* 1..n: the indexes of the calls of an answer
  MaxTexts    \* bound: pieces of text

\* What the constants are; the instance assumes it.
StreamsAssumption ==
  /\ IsFiniteSet(Slots) /\ Slots # {} /\ Slots = 1..Cardinality(Slots)
  /\ MaxTexts \in Nat

VARIABLES
  vendor,
  progress,   \* how many frames of each call the vendor has sent
  texts,
  ending,     \* the finish reason it sent, then "over"
  wire,       \* the frames sent and not read
  half,       \* the buffer holds the beginning of the next frame
  acc,        \* tool_call_accs: the pieces of each index, with FALSE for none
  finish,
  out         \* the events produced

streamVars == <<vendor, progress, texts, ending, wire, half, acc, finish, out>>

\* The frames of a call, by vendor.
FramesOfCall ==
  [openai |-> <<"first", "more">>, anthropic |-> <<"start", "delta", "delta", "stop">>,
   gemini |-> <<"call">>]

Frame(kind, slot, n) == [kind |-> kind, slot |-> slot, n |-> n, reason |-> "none"]
Finish(reason) == [Frame("finish", 1, 1) EXCEPT !.reason = reason]
NoAcc == [held |-> FALSE, args |-> <<>>]
Event(kind, slot, args, reason) == [kind |-> kind, slot |-> slot, args |-> args, reason |-> reason]

Init ==
  /\ vendor \in DOMAIN FramesOfCall
  /\ progress = [s \in Slots |-> 0] /\ texts = 0 /\ ending = "none"
  /\ wire = <<>> /\ half = FALSE
  /\ acc = [s \in Slots |-> NoAcc] /\ finish = "other"
  /\ out = <<>>

-----------------------------------------------------------------------------
(* The vendor.                                                             *)

Needed == Len(FramesOfCall[vendor])
Begun == {s \in Slots : progress[s] > 0}
Open == {s \in Begun : progress[s] < Needed}

SendText ==
  /\ ending = "none" /\ texts < MaxTexts
  /\ texts' = texts + 1
  /\ wire' = Append(wire, Frame("text", 1, texts'))
  /\ UNCHANGED <<vendor, progress, ending, half, acc, finish, out>>

\* The calls are numbered as they begin, and their pieces may alternate.
SendCall(s) ==
  /\ ending = "none" /\ progress[s] < Needed
  /\ \A q \in Slots : q < s => q \in Begun
  /\ progress' = [progress EXCEPT ![s] = @ + 1]
  /\ wire' = Append(wire, Frame(FramesOfCall[vendor][progress'[s]], s, progress'[s]))
  /\ UNCHANGED <<vendor, texts, ending, half, acc, finish, out>>

\* With the answer cut for its length calls may remain open, and anthropic stops their blocks.
SendFinish ==
  /\ ending = "none"
  /\ \/ /\ Open = {} /\ ending' \in {"stop", "tool_use"}
        /\ ending' = "tool_use" => Begun # {}
        /\ ending' = "stop" => Begun = {} \/ vendor = "gemini"
     \/ ending' = "length"
  /\ LET cut == IF vendor = "anthropic" THEN Open ELSE {}
         stops == [i \in 1..Cardinality(cut) |->
                     Frame("stop", CHOOSE s \in cut : Cardinality({q \in cut : q < s}) = i - 1, Needed)]
     IN /\ wire' = wire \o stops \o <<Finish(ending')>>
        /\ UNCHANGED <<vendor, progress, texts, half, acc, finish, out>>

\* openai and anthropic end with a frame of its own, gemini may send one without candidates.
SendEnd ==
  /\ ending \notin {"none", "over"}
  /\ ending' = "over"
  /\ wire' = Append(wire, Frame("end", 1, 1))
  /\ UNCHANGED <<vendor, progress, texts, half, acc, finish, out>>

\* The connection breaks, or is closed early: what was not read is lost, half a frame too.
Break ==
  /\ ending' = "over" /\ ending # "over"
  /\ wire' = <<>> /\ half' = FALSE
  /\ out' \in {out, Append(out, Event("error", 1, <<>>, "unavailable"))}
  /\ UNCHANGED <<vendor, progress, texts, acc, finish>>

-----------------------------------------------------------------------------
(* The reader.                                                             *)

\* sse_frames: a chunk that ends within a frame only fills the buffer.
ReadPart ==
  /\ wire # <<>> /\ ~half
  /\ half' = TRUE
  /\ UNCHANGED <<vendor, progress, texts, ending, wire, acc, finish, out>>

\* The index of a piece.
SlotOf(frame) == frame.slot

\* Whether arguments are JSON.
Parses(args) == args = <<1, 2>>

Call(s) ==
  IF Parses(acc[s].args) THEN Event("call", s, acc[s].args, "none")
  ELSE IF vendor = "anthropic" THEN Event("call", s, <<>>, "none")  \* with no arguments
  ELSE Event("error", s, <<>>, "malformed")

\* What the pieces of calls add up to, in the order of their indexes.
Calls(slots) ==
  [i \in 1..Cardinality(slots) |->
     Call(CHOOSE s \in slots : Cardinality({q \in slots : q < s}) = i - 1)]

Done(reason) == out' = Append(out, Event("done", 1, <<>>, reason))

\* openai: whatever a piece bears is added to what its index holds.
OpenAiPiece(f) ==
  /\ f.kind \in {"first", "more"}
  /\ acc' = [acc EXCEPT ![SlotOf(f)] = [held |-> TRUE, args |-> Append(@.args, f.n)]]
  /\ UNCHANGED <<finish, out>>

\* All calls leave when the finish reason is tool_calls, and stay for any other.
OpenAiFinish(f) ==
  /\ f.kind = "finish"
  /\ finish' = f.reason
  /\ IF f.reason = "tool_use"
       THEN out' = out \o Calls({s \in Slots : acc[s].held}) /\ acc' = [s \in Slots |-> NoAcc]
       ELSE UNCHANGED <<out, acc>>

\* The frame [DONE].
OpenAiDone(f) == f.kind = "end" /\ Done(finish) /\ UNCHANGED <<acc, finish>>

\* anthropic: a call begins with its block.
BlockStart(f) ==
  /\ f.kind = "start"
  /\ acc' = [acc EXCEPT ![SlotOf(f)] = [held |-> TRUE, args |-> <<>>]]
  /\ UNCHANGED <<finish, out>>

\* Pieces of a block that has not begun are ignored.
BlockDelta(f) ==
  /\ f.kind = "delta"
  /\ acc' = [acc EXCEPT ![SlotOf(f)].args = IF acc[SlotOf(f)].held THEN Append(@, f.n - 1) ELSE @]
  /\ UNCHANGED <<finish, out>>

\* It leaves with its block.
BlockStop(f) ==
  /\ f.kind = "stop"
  /\ out' = IF acc[SlotOf(f)].held THEN Append(out, Call(SlotOf(f))) ELSE out
  /\ acc' = [acc EXCEPT ![SlotOf(f)] = NoAcc] /\ UNCHANGED finish

MessageDelta(f) == f.kind = "finish" /\ finish' = f.reason /\ UNCHANGED <<acc, out>>

MessageStop(f) == f.kind = "end" /\ Done(finish) /\ UNCHANGED <<acc, finish>>

\* gemini: a call is one part of one frame.
GeminiCall(f) ==
  /\ f.kind = "call"
  /\ out' = Append(out, Event("call", f.slot, <<1, 2>>, "none"))
  /\ UNCHANGED <<acc, finish>>

\* The frame with the finish reason ends the answer, and so does one without candidates.
GeminiFinish(f) ==
  /\ f.kind \in {"finish", "end"}
  /\ Done(IF f.kind = "end" THEN "stop" ELSE f.reason)
  /\ UNCHANGED <<acc, finish>>

\* Each vendor's text is passed on as it comes.
Text(f) ==
  f.kind = "text" /\ out' = Append(out, Event("text", f.n, <<>>, "none")) /\ UNCHANGED <<acc, finish>>

\* The rest of a frame arrives: its events are produced.
ReadFrame ==
  /\ wire # <<>>
  /\ wire' = Tail(wire) /\ half' = FALSE
  /\ LET f == Head(wire) IN
       \/ Text(f)
       \/ vendor = "openai" /\ (OpenAiPiece(f) \/ OpenAiFinish(f) \/ OpenAiDone(f))
       \/ /\ vendor = "anthropic"
          /\ BlockStart(f) \/ BlockDelta(f) \/ BlockStop(f) \/ MessageDelta(f) \/ MessageStop(f)
       \/ vendor = "gemini" /\ (GeminiCall(f) \/ GeminiFinish(f))
  /\ UNCHANGED <<vendor, progress, texts, ending>>

Next ==
  \/ SendText \/ SendFinish \/ SendEnd \/ Break \/ ReadPart \/ ReadFrame
  \/ \E s \in Slots : SendCall(s)

TypeOK ==
  /\ vendor \in DOMAIN FramesOfCall
  /\ progress \in [Slots -> 0..4] /\ texts \in 0..MaxTexts
  /\ ending \in {"none", "stop", "tool_use", "length", "over"}
  /\ \A i \in DOMAIN wire : wire[i].slot \in Slots
  /\ half \in BOOLEAN
  /\ \A s \in Slots : acc[s].held \in BOOLEAN
  /\ finish \in {"other", "stop", "tool_use", "length"}
  /\ \A i \in DOMAIN out : out[i].kind \in {"text", "call", "done", "error"}

CallsIn == {i \in DOMAIN out : out[i].kind = "call"}

\* However the pieces of the calls alternate and the connection ends, a call leaves once and
\* with all its arguments, unless the vendor cut the answer; and an answer that ends for its
\* calls has had all of them before.  AiCalls reads no further than the end.
CallsArriveWhole ==
  /\ \A i, j \in CallsIn : out[i].slot = out[j].slot => i = j
  /\ \A i \in CallsIn :
       Parses(out[i].args) \/ (out[i].args = <<>> /\ progress[out[i].slot] < Needed)
  /\ \A i \in DOMAIN out : out[i].kind = "done" =>
       /\ \A j \in (i + 1)..Len(out) : out[j].kind \in {"done", "error"}
       /\ out[i].reason = "tool_use" => \A s \in Begun : \E j \in CallsIn : j < i /\ out[j].slot = s

=============================================================================
