------------------------------- MODULE Streams -------------------------------
(***************************************************************************)
(* The synchronous streams (include/forge/io/stream.hpp and                *)
(* memory_stream.hpp): a scripted or an in-memory reader, reached directly *)
(* or through a type-erased handle, the loops read_exactly, read_until and *)
(* write_all over them, and the in-memory writer.  A step is one           *)
(* read_some or write_some, with what the loop does with its result.       *)
(***************************************************************************)
EXTENDS Naturals, Sequences, SequencesExt

CONSTANTS Readers,    \* the readers: scripted ([steps]) or in memory ([bytes, max])
          Writers,    \* the writers: [capacity (0: unlimited), borrowed]
          Payloads,   \* what the program writes
          Delimiter,  \* the byte read_until looks for
          MaxWant,    \* the largest buffer the program asks for
          MaxCalls    \* how many calls the program makes

VARIABLES reader,  \* the reader's state
          writer,  \* the writer's state: its bytes and the limits
          handle,  \* is the erased handle's operations_ pointer set?
          call,    \* the call in progress or the last one
          log      \* history: bytes accepted, calls made, the reader at the last call

vars == <<reader, writer, handle, call, log>>

NoCall == [op |-> "none", want |-> 0, got |-> <<>>, status |-> "value", input |-> <<>>, from |-> <<>>]

Init ==
  /\ reader \in Readers
  /\ writer \in {w @@ [bytes |-> <<>>] : w \in Writers}
  /\ handle = TRUE /\ call = NoCall
  /\ log = [written |-> <<>>, calls |-> 0, start |-> reader]

Ret(next, bytes, status) == [reader |-> next, bytes |-> bytes, status |-> status]
Smallest(a, b) == IF a < b THEN a ELSE b

-----------------------------------------------------------------------------
(* memory_read_stream: a limit of zero is no limit.                        *)
memory_read_some(r, n) ==
  LET limit == IF r.max = 0 THEN n ELSE r.max
      count == Smallest(Smallest(n, Len(r.bytes)), limit)
  IN IF r.bytes = <<>> THEN Ret(r, <<>>, "eof")
     ELSE Ret([r EXCEPT !.bytes = SubSeq(@, count + 1, Len(@))], SubSeq(r.bytes, 1, count), "value")

(* scripted_read_stream: a step hands out its bytes, ends with its error,  *)
(* if it has one, together with the last of them, and is then popped; an   *)
(* error step is popped, the end of file is not.                           *)
Spent(step) == step.kind = "bytes" /\ step.bytes = <<>> /\ ~step.fails
Popped(r) == [r EXCEPT !.steps = Tail(@)]
read_bytes_step(r, n) ==
  LET bytes == r.steps[1].bytes  count == Smallest(n, Len(bytes)) IN
  IF count = Len(bytes) THEN Ret(Popped(r), bytes, IF r.steps[1].fails THEN "error" ELSE "value")
  ELSE Ret([r EXCEPT !.steps[1].bytes = SubSeq(@, count + 1, Len(@))], SubSeq(bytes, 1, count), "value")

scripted_read_some(given, n) ==
  LET live == SelectInSeq(given.steps, LAMBDA step : ~Spent(step))
      r == [given EXCEPT !.steps = IF live = 0 THEN <<>> ELSE SubSeq(@, live, Len(@))]
  IN CASE r.steps = <<>> -> Ret(r, <<>>, "eof")
       [] r.steps # <<>> /\ r.steps[1].kind = "eof" -> Ret(r, <<>>, "eof")
       [] r.steps # <<>> /\ r.steps[1].kind = "error" -> Ret(Popped(r), <<>>, "error")
       [] OTHER -> read_bytes_step(r, n)

(* any_read_stream and owning_any_read_stream forward, or are empty.       *)
read_some(r, n) ==
  CASE ~handle -> Ret(r, <<>>, "error")
    [] handle /\ n = 0 -> Ret(r, <<>>, "value")
    [] OTHER -> IF r.kind = "memory" THEN memory_read_some(r, n) ELSE scripted_read_some(r, n)

reset == /\ handle /\ call.op = "none" /\ handle' = FALSE /\ UNCHANGED <<reader, writer, call, log>>

-----------------------------------------------------------------------------
Calls(op, want, input) ==
  /\ call.op = "none" /\ log.calls < MaxCalls
  /\ call' = [op |-> op, want |-> want, got |-> <<>>, status |-> "running", input |-> input, from |-> writer.bytes]
  /\ log' = [log EXCEPT !.calls = @ + 1, !.start = reader] /\ UNCHANGED <<reader, writer, handle>>

ExactlyStatus(got, ret) ==
  CASE ret.status = "error" -> "error"
    [] ret.status # "error" /\ Len(got) = call.want -> "value"
    [] ret.status # "error" /\ Len(got) # call.want /\ ret.bytes = <<>> -> "eof"
    [] OTHER -> "running"

(* read_until asks for one byte at a time, up to max_bytes.                *)
UntilStatus(got, ret) ==
  CASE ret.status = "error" -> "error"
    [] ret.status = "none" -> "message_size"
    [] ret.status \in {"value", "eof"} /\ ret.bytes # <<>> /\ Last(got) = Delimiter -> "value"
    [] ret.status \in {"value", "eof"} /\ ret.bytes = <<>> -> "eof"
    [] OTHER -> "running"

(* A step of a read loop: the bytes are kept, whatever ends the call.      *)
Reads(n) ==
  /\ call.status = "running" /\ UNCHANGED <<writer, handle, log>>
  /\ LET ret == IF n = 0 THEN Ret(reader, <<>>, "none") ELSE read_some(reader, n)
         got == call.got \o ret.bytes
     IN /\ reader' = ret.reader
        /\ call' = [call EXCEPT !.got = got,
                      !.status = IF call.op = "read_exactly" THEN ExactlyStatus(got, ret) ELSE UntilStatus(got, ret)]
read_exactly == call.op = "read_exactly" /\ Reads(call.want - Len(call.got))
read_until == call.op = "read_until" /\ Reads(IF Len(call.got) < call.want THEN 1 ELSE 0)

-----------------------------------------------------------------------------
(* memory_write_stream: a capacity of zero stands for no limit.  An input  *)
(* inside the stream's own storage is copied before the storage is         *)
(* resized, for resizing may move it.                                      *)
Stages(aliases) == aliases
ReadAfterResize(input, aliases) ==
  IF aliases /\ writer.capacity = 0 /\ ~Stages(aliases) THEN [i \in DOMAIN input |-> "freed"] ELSE input
write_some(input) ==
  LET room == IF writer.capacity = 0 THEN Len(input) ELSE writer.capacity - Len(writer.bytes)
      count == Smallest(Len(input), room)
  IN SubSeq(ReadAfterResize(input, call.op = "write_own" /\ ~writer.borrowed), 1, count)

write_all ==
  /\ call.op \in {"write_all", "write_own"} /\ call.status = "running" /\ UNCHANGED <<reader, handle>>
  /\ IF Len(call.got) = Len(call.input)
     THEN call' = [call EXCEPT !.status = "value"] /\ UNCHANGED <<writer, log>>
     ELSE LET wrote == write_some(SubSeq(call.input, Len(call.got) + 1, Len(call.input))) IN
          /\ writer' = [writer EXCEPT !.bytes = @ \o wrote]
          /\ log' = [log EXCEPT !.written = @ \o SubSeq(call.input, Len(call.got) + 1, Len(call.got) + Len(wrote))]
          /\ call' = [call EXCEPT !.got = @ \o wrote, !.status = IF wrote = <<>> THEN "io_error" ELSE "running"]

clear ==
  /\ call.op = "none" /\ writer.bytes # <<>> /\ writer' = [writer EXCEPT !.bytes = <<>>]
  /\ log' = [log EXCEPT !.written = <<>>] /\ UNCHANGED <<reader, handle, call>>

Returns == call.op # "none" /\ call.status # "running" /\ call' = NoCall /\ UNCHANGED <<reader, writer, handle, log>>

(* The program's next call; it may write back what it reads in bytes().    *)
Begin ==
  \/ \E op \in {"read_exactly", "read_until"}, want \in 0..MaxWant : Calls(op, want, <<>>)
  \/ \E input \in Payloads : Calls("write_all", 0, input)
  \/ writer.bytes # <<>> /\ Calls("write_own", 0, writer.bytes)

Next == Begin \/ read_exactly \/ read_until \/ write_all \/ Returns \/ reset \/ clear

Spec == Init /\ [][Next]_vars

-----------------------------------------------------------------------------
(* What a reader still holds, up to and including what ends it; and what a *)
(* whole call should do with it, stated on the content and not on the      *)
(* steps: how many bytes come before the barrier, and what the barrier is. *)
RECURSIVE Content(_)
Content(steps) ==
  IF steps = <<>> \/ steps[1].kind = "eof" THEN [bytes |-> <<>>, ends |-> "eof", glued |-> FALSE]
  ELSE IF steps[1].kind = "error" THEN [bytes |-> <<>>, ends |-> "error", glued |-> FALSE]
  ELSE IF steps[1].fails THEN [bytes |-> steps[1].bytes, ends |-> "error", glued |-> TRUE]
  ELSE [Content(Tail(steps)) EXCEPT !.bytes = steps[1].bytes \o @]
Offers(r) == IF r.kind = "memory" THEN [bytes |-> r.bytes, ends |-> "eof", glued |-> FALSE] ELSE Content(r.steps)

RECURSIVE AllBytes(_)
AllBytes(steps) == IF steps = <<>> THEN <<>> ELSE steps[1].bytes \o AllBytes(Tail(steps))
Holds(r) == IF r.kind = "memory" THEN r.bytes ELSE AllBytes(r.steps)

Promised ==
  LET offer == Offers(log.start)
      avail == Len(offer.bytes)
      ends(n) == IF n < avail \/ (n = avail /\ ~(offer.glued /\ n > 0)) THEN "value" ELSE offer.ends
      found == {i \in 1..Smallest(avail, call.want) : offer.bytes[i] = Delimiter}
      at == CHOOSE i \in found : \A j \in found : i <= j
  IN IF call.want = 0 \/ ~handle
     THEN [count |-> 0, status |-> CASE call.op = "read_exactly" /\ call.want = 0 -> "value"
                                     [] call.op = "read_until" /\ call.want = 0 -> "message_size"
                                     [] OTHER -> "error"]
     ELSE IF call.op = "read_exactly"
     THEN [count |-> Smallest(call.want, avail), status |-> ends(call.want)]
     ELSE IF found # {} THEN [count |-> at, status |-> IF at = avail /\ offer.glued THEN "error" ELSE "value"]
     ELSE IF call.want < avail \/ (call.want = avail /\ ~offer.glued)
     THEN [count |-> call.want, status |-> "message_size"]
     ELSE [count |-> avail, status |-> offer.ends]

(* No byte is lost, repeated or reordered, whatever ends a call: an error  *)
(* that comes with the last bytes of a step hands them out, and the next   *)
(* call goes on behind them.  A call that returns did what its contract    *)
(* says of the reader's content; and what a writer holds is what its       *)
(* write_all calls said they wrote, writes of its own bytes included.      *)
BytesConserved ==
  /\ call.op \in {"read_exactly", "read_until"} =>
       /\ Holds(log.start) = call.got \o Holds(reader)
       /\ call.status # "running" => Len(call.got) = Promised.count /\ call.status = Promised.status
  /\ writer.bytes = log.written
  /\ call.op \in {"write_all", "write_own"} /\ call.status # "running" =>
       /\ call.status = "value" <=> writer.bytes = call.from \o call.input
       /\ writer.capacity # 0 => Len(writer.bytes) <= writer.capacity
=============================================================================
