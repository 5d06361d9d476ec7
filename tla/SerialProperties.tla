-------------------------- MODULE SerialProperties --------------------------
(* What holds of the stream between the writer and its readers.            *)
EXTENDS SerialTraits

(* Every message is self-delimiting: whichever reader takes a message, what *)
(* is left is exactly the encodings of the messages not yet read. Their     *)
(* length is what get_serial_size says, and so the room a generator is      *)
(* asked for.                                                               *)
FramesAligned ==
    /\ buffer = FlattenSeq([i \in DOMAIN inflight |->
                               serialize(Messages[inflight[i]].t, Messages[inflight[i]].v)])
    /\ Len(buffer) =
          FoldLeft(LAMBDA n, m : n + serial_size(Messages[m].t, Messages[m].v), 0, inflight)

(* What was read last is what was written.                                  *)
ReadsBack == got.m # 0 => got.complete /\ got.v = Messages[got.m].v

(* An integer of eight bytes is known to lose its upper half when the byte  *)
(* before it has its top bit set: that byte is shifted as an int and its    *)
(* sign or-ed into the half above. Only the generator of the unsigned one   *)
(* widens the byte first.                                                   *)
LosesUpperHalf(t, v, via) ==
    /\ t.k = "int" /\ t.n = 8 /\ (t.signed \/ via = "iterator")
    /\ 2 * (v % Word(4)) >= Word(4)

Arriving(m, via) ==
    LET t == Messages[m].t
        v == Messages[m].v
        low == Signed(v % Word(4), 4)
    IN  IF ~LosesUpperHalf(t, v, via) THEN v ELSE IF t.signed THEN low ELSE low % Word(8)

(* The stream is a queue: a message comes out in its turn, with the value   *)
(* it went in with but for the integers that lose their upper half.         *)
ComesOut == got.m # 0 => got.complete /\ got.v = Arriving(got.m, got.via)
Contract == INSTANCE MessageQueue WITH
    Items <- DOMAIN Messages, queue <- inflight, taken <- IF ComesOut THEN got.m ELSE -1
IsQueue == Contract!Spec
=============================================================================
