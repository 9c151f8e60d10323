------------------------------- MODULE Delta -------------------------------
(***************************************************************************)
(* XorDelta (src/src/sync/delta.rs): a state is sent as the run-length     *)
(* encoded XOR with the one before.  Deltas travel over a channel that may *)
(* lose, repeat and reorder them.  A byte is 0 or 1 here; Blake3 is        *)
(* external and tells any two states apart.                                *)
(***************************************************************************)
EXTENDS Integers, Sequences, FiniteSetsExt

CONSTANTS
    States,           \* states of the sender, sequences of bytes
    MaxRun,           \* 255: the longest run of one pair
    MaxDeltas         \* bound: deltas sent

ASSUME DeltaAssumption ==
    MaxRun \in Nat \ {0} /\ MaxDeltas \in Nat /\ States \subseteq Seq({0, 1})

VARIABLES
    sender, history,  \* the state, and all states so far
    deltas,           \* deltas in the channel
    receiver, rejected

deltaVars == <<sender, history, deltas, receiver, rejected>>

ByteAt(bytes, i) == IF i \in DOMAIN bytes THEN bytes[i] ELSE 0
Xor(a, b) == (a + b) % 2

\* rle_compress: a pair of a count and a value for each run.  A run longer than
\* MaxRun is cut into full pairs and a rest, the full ones first.
RunLength(data, i) ==
    Max({c \in 1 .. MaxRun : i + c - 1 <= Len(data) /\ \A j \in i .. i + c - 1 : data[j] = data[i]})

NextPair(data, t) ==
    IF t.at > Len(data) THEN t
    ELSE [at  |-> t.at + RunLength(data, t.at),
          out |-> t.out \o <<RunLength(data, t.at) % (MaxRun + 1), data[t.at]>>]

RleCompress(data) ==
    LET turn[k \in 0 .. Len(data)] ==
            IF k = 0 THEN [at |-> 1, out |-> <<>>] ELSE NextPair(data, turn[k - 1])
    IN  turn[Len(data)].out

\* rle_decompress: an odd byte at the end is dropped.
Run(count, value) == [i \in 1 .. count |-> value]

RleDecompress(patch) ==
    LET result[k \in 0 .. Len(patch) \div 2] ==
            IF k = 0 THEN <<>> ELSE result[k - 1] \o Run(patch[2 * k - 1], patch[2 * k])
    IN  result[Len(patch) \div 2]

\* XorDelta::compute
Longer(a, b) == IF Len(a) >= Len(b) THEN Len(a) ELSE Len(b)

Compute(prev, new) ==
    [prev_hash |-> prev, new_hash |-> new, new_len |-> Len(new),
     patch |-> RleCompress([i \in 1 .. Longer(prev, new) |-> Xor(ByteAt(prev, i), ByteAt(new, i))])]

\* XorDelta::apply
Patched(delta, state) ==
    LET xor == RleDecompress(delta.patch)
    IN  [i \in 1 .. delta.new_len |-> Xor(ByteAt(state, i), ByteAt(xor, i))]

\* Mutant: the hash of the state the delta starts from is not compared.
AppliesAnywhere(delta, state) == TRUE

Applies(delta, state) == delta.prev_hash = state /\ Patched(delta, state) = delta.new_hash

----------------------------------------------------------------------------

DeltaInit ==
    /\ sender \in States /\ history = {sender} /\ receiver = sender
    /\ deltas = <<>> /\ rejected = FALSE

\* The sender moves to a new state and sends the difference.
SendDelta(new) ==
    /\ Len(deltas) < MaxDeltas
    /\ deltas' = Append(deltas, Compute(sender, new))
    /\ sender' = new /\ history' = history \cup {new}
    /\ UNCHANGED <<receiver, rejected>>

\* Some delta reaches the receiver, which may see it again or never.
Receive(i) ==
    /\ i \in DOMAIN deltas
    /\ IF Applies(deltas[i], receiver)
       THEN receiver' = Patched(deltas[i], receiver) /\ UNCHANGED rejected
       ELSE /\ UNCHANGED receiver
            /\ rejected' = (rejected \/ deltas[i].prev_hash = receiver)
    /\ UNCHANGED <<sender, history, deltas>>

DeltaNext == (\E new \in States : SendDelta(new)) \/ (\E i \in 1 .. MaxDeltas : Receive(i))

\* Whatever is lost, repeated or reordered, the receiver holds a state the
\* sender had, never a mixture; and a delta is never refused by a receiver that
\* holds the state it starts from: the patch reproduces the new state exactly,
\* through runs longer than a pair and changes of length.
DeltaExact == receiver \in history /\ ~rejected
=============================================================================
