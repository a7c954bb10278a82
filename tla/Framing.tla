------------------------------ MODULE Framing ------------------------------
(***************************************************************************)
(* The format of a message on the TCP connection: its size as a big-endian  *)
(* number, then that many bytes.  A byte is a number; its first byte says   *)
(* what the message is (bincode writes the variants of an enum first).      *)
(***************************************************************************)
EXTENDS Naturals, Sequences

CONSTANTS
    Base,       \* values of a byte of the size, 256 in the code
    SizeBytes,  \* bytes of the size, 4 in the code
    SizeLimit   \* MESSAGE_SIZE_LIMIT

\* What a byte of the size counts that has k bytes behind it.
Weight[k \in 0..SizeBytes - 1] == IF k = 0 THEN 1 ELSE Base * Weight[k - 1]

ASSUME FramingAssumption ==
    /\ Base \in Nat \ {0, 1}
    /\ SizeBytes \in Nat \ {0}
    /\ SizeLimit \in Nat
    /\ SizeLimit < Base * Weight[SizeBytes - 1]

\* write_u32, after a check of the limit that makes the cast to u32 exact.
SizeField(n) == [i \in 1..SizeBytes |-> (n \div Weight[SizeBytes - i]) % Base]

\* read_u32.
SizeOf(field) ==
    LET value[i \in 0..Len(field)] == IF i = 0 THEN 0 ELSE value[i - 1] * Base + field[i]
    IN  value[Len(field)]

Frame(bytes) == SizeField(Len(bytes)) \o bytes

\* What recv_message has to go on with: it waits for the size or for the body.
NewReader == [pc |-> "size", need |-> SizeBytes, got |-> <<>>]

\* The body is read next, unless it is over the limit; an empty one cannot be
\* deserialized, and recv_message fails as well.
SizeRead(n) ==
    IF n \in 1..SizeLimit THEN [pc |-> "body", need |-> n, got |-> <<>>]
                          ELSE [pc |-> "failed", need |-> 0, got |-> <<>>]

\* Some more bytes have arrived, not more than the read asked for.
ReadSome(r, bytes) ==
    LET got == r.got \o bytes
    IN  IF r.pc = "size" /\ Len(got) = SizeBytes
        THEN SizeRead(SizeOf(got))
        ELSE [r EXCEPT !.got = got]

\* Mutant: read instead of read_exact.
HasPart(r) == r.pc = "body" /\ r.got # <<>>

\* read_exact has filled the buffer of the body.
HasMessage(r) == r.pc = "body" /\ Len(r.got) = r.need

=============================================================================
