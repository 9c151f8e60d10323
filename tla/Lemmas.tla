------------------------------- MODULE Lemmas -------------------------------
(***************************************************************************)
(* Facts that the proofs of several components need: arithmetic modulo a   *)
(* number for counters that wrap, induction, the sliding window of the     *)
(* replay guard (RequestReplayGuard, used by both MCP adapters), and what  *)
(* Vec::retain leaves of a sequence.                                       *)
(***************************************************************************)
EXTENDS Queues, Integers, Sequences, FiniteSets, SequenceTheorems, FiniteSetTheorems,
        WellFoundedInduction, TLAPS

\* A number is a multiple of n and its remainder.
LEMMA Division ==
    ASSUME NEW n \in Nat, n > 0, NEW a \in Int
    PROVE  a % n \in 0 .. n - 1 /\ \E q \in Int : a = n * q + (a % n)
<1>1. a % n \in 0 .. n - 1
  OBVIOUS
<1>2. \E q \in Int : a = n * q + (a % n)
  OBVIOUS
<1> QED BY <1>1, <1>2

\* There is only one remainder.
LEMMA RemainderUnique ==
    ASSUME NEW n \in Nat, n > 0, NEW q \in Int, NEW p \in Int,
           NEW r \in 0 .. n - 1, NEW s \in 0 .. n - 1, n * q + r = n * p + s
    PROVE  r = s
OBVIOUS

\* Multiples of n do not change the remainder.
LEMMA RemainderShift ==
    ASSUME NEW n \in Nat, n > 0, NEW a \in Int, NEW k \in Int
    PROVE  (a + n * k) % n = a % n
<1>1. PICK q \in Int : a = n * q + (a % n)
  BY Division
<1>2. n * k \in Int /\ a + n * k \in Int
  OBVIOUS
<1>3. PICK p \in Int : a + n * k = n * p + ((a + n * k) % n)
  BY <1>2, Division
<1>4. a % n \in 0 .. n - 1 /\ (a + n * k) % n \in 0 .. n - 1
  BY <1>2, Division
<1>5. n * (q + k) = n * q + n * k
  OBVIOUS
<1>6. n * (q + k) + (a % n) = n * p + ((a + n * k) % n)
  BY <1>1, <1>3, <1>4, <1>5
<1>7. q + k \in Int
  OBVIOUS
<1> QED BY <1>4, <1>6, <1>7, RemainderUnique

\* A remainder may be taken before an addition.
LEMMA RemainderSum ==
    ASSUME NEW n \in Nat, n > 0, NEW a \in Int, NEW b \in Int
    PROVE  ((a % n) + b) % n = (a + b) % n
<1>1. PICK q \in Int : a = n * q + (a % n)
  BY Division
<1>2. (a % n) + b \in Int
  BY Division
<1>3. a + b = ((a % n) + b) + n * q
  BY <1>1, Division
<1> QED BY <1>2, <1>3, RemainderShift

\* Equal remainders stay equal under the same addition.
LEMMA RemainderAdd ==
    ASSUME NEW n \in Nat, n > 0, NEW a \in Int, NEW b \in Int, NEW c \in Int, a % n = b % n
    PROVE  (a + c) % n = (b + c) % n
BY RemainderSum

----------------------------------------------------------------------------
(* The first of several *)

\* A set of numbers that is not empty has a least element.
LEMMA LeastElement ==
    ASSUME NEW S, S \subseteq Nat, S # {}
    PROVE  \E i \in S : \A j \in S : i <= j
<1> DEFINE R == OpToRel(<, Nat)
<1>1. IsWellFoundedOn(R, Nat)
  BY NatLessThanWellFounded
<1>2. \A i, j \in Nat : ~(<<j, i>> \in R) => i <= j
  BY DEF OpToRel
<1> HIDE DEF R
<1>3. PICK i \in S : \A j \in S : ~(<<j, i>> \in R)
  BY <1>1, WFMin
<1>4. \A j \in S : i <= j
  BY <1>2, <1>3
<1> QED BY <1>4

\* It is the one that is chosen.
LEMMA LeastIsChosen ==
    ASSUME NEW S, S \subseteq Nat, NEW n \in S, \A j \in S : n <= j
    PROVE  (CHOOSE i \in S : \A j \in S : i <= j) = n
<1>1. \E i \in S : \A j \in S : i <= j
  OBVIOUS
<1>2. PICK c : c = CHOOSE i \in S : \A j \in S : i <= j
  OBVIOUS
<1>3. c \in S /\ \A j \in S : c <= j
  BY <1>1, <1>2, Zenon
<1> QED BY <1>2, <1>3

\* Induction, over a set: what holds of 0 and of every successor up to n holds
\* up to n.
LEMMA SetInduction ==
    ASSUME NEW n \in Nat, NEW G, 0 \in G, \A m \in 1 .. n : m - 1 \in G => m \in G
    PROVE  \A m \in 0 .. n : m \in G
<1>1. SUFFICES ASSUME NEW k \in 0 .. n, k \notin G PROVE FALSE
  OBVIOUS
<1>2. PICK B : B = {m \in 0 .. n : m \notin G}
  OBVIOUS
<1>3. B \subseteq Nat /\ B # {}
  BY <1>1, <1>2
<1>4. PICK m \in B : \A j \in B : m <= j
  BY <1>3, LeastElement
<1>5. m \in 1 .. n /\ m - 1 \notin B
  BY <1>2, <1>4
<1> QED BY <1>2, <1>4, <1>5

\* A set of numbers that is bounded has a greatest element, and that is the one
\* chosen.
LEMMA GreatestIsChosen ==
    ASSUME NEW S, S \subseteq Nat, S # {}, NEW n \in Nat, \A i \in S : i <= n,
           NEW c, c = CHOOSE i \in S : \A j \in S : i >= j
    PROVE  c \in S /\ \A j \in S : c >= j
<1>1. PICK B : B = {d \in Nat : n - d \in S}
  OBVIOUS
<1>2. ASSUME NEW i \in S PROVE n - i \in B
  BY <1>1
<1> B \subseteq Nat /\ B # {}
  BY <1>1, <1>2
<1>3. PICK b \in B : \A d \in B : b <= d
  BY LeastElement
<1>4. PICK i \in S : b = n - i
  BY <1>1
<1>5. \A j \in S : i >= j
  <2>1. SUFFICES ASSUME NEW j \in S PROVE i >= j
    OBVIOUS
  <2>2. b <= n - j
    BY <1>2, <1>3
  <2> QED BY <1>4, <2>2
<1> QED BY <1>5, Zenon

\* step[k] leads from the value of f at k - 1 to the one at k.
Iterates(f, n, b, step) == \A k \in 0 .. n : f[k] = IF k = 0 THEN b ELSE step[k][f[k - 1]]

\* A recursion along the numbers up to n has a solution.
LEMMA Iteration ==
    ASSUME NEW n \in Nat, NEW V, NEW b \in V, NEW step \in [1 .. n -> [V -> V]]
    PROVE  \E f \in [0 .. n -> V] : Iterates(f, n, b, step)
<1> DEFINE Good(m) == \E f \in [0 .. m -> V] :
                         \A k \in 0 .. m : f[k] = IF k = 0 THEN b ELSE step[k][f[k - 1]]
           G == {m \in 0 .. n : Good(m)}
<1>1. 0 \in G
  <2>1. PICK f : f = [k \in 0 .. 0 |-> b]
    OBVIOUS
  <2>2. f \in [0 .. 0 -> V] /\ \A k \in 0 .. 0 : f[k] = IF k = 0 THEN b ELSE step[k][f[k - 1]]
    BY <2>1
  <2> QED BY <2>2
<1>2. ASSUME NEW m \in 1 .. n, m - 1 \in G PROVE m \in G
  <2>1. m \in 0 .. n /\ m - 1 \in 0 .. m - 1 /\ m # 0
    OBVIOUS
  <2>2. PICK old \in [0 .. m - 1 -> V] :
           \A k \in 0 .. m - 1 : old[k] = IF k = 0 THEN b ELSE step[k][old[k - 1]]
    BY <1>2
  <2> HIDE DEF G
  <2>3. PICK last : last = step[m][old[m - 1]]
    OBVIOUS
  <2>4. last \in V
    <3>1. old[m - 1] \in V /\ step[m] \in [V -> V]
      BY <2>1
    <3> QED BY <2>3, <3>1
  <2>5. PICK f : f = [k \in 0 .. m |-> IF k = m THEN last ELSE old[k]]
    OBVIOUS
  <2>6. \A k \in 0 .. m : k # m => k \in 0 .. m - 1
    BY <2>1
  <2>7. f \in [0 .. m -> V]
    BY <2>4, <2>5, <2>6
  <2>8. ASSUME NEW k \in 0 .. m PROVE f[k] = IF k = 0 THEN b ELSE step[k][f[k - 1]]
    <3>1. CASE k = m
      <4>1. f[m] = last /\ f[m - 1] = old[m - 1]
        BY <2>1, <2>5
      <4> QED BY <3>1, <2>1, <2>3, <4>1
    <3>2. CASE k # m
      <4>1. k \in 0 .. m - 1 /\ (k # 0 => k - 1 \in 0 .. m - 1)
        BY <3>2, <2>1
      <4>2. f[k] = old[k] /\ (k # 0 => f[k - 1] = old[k - 1])
        BY <4>1, <2>1, <2>5
      <4> QED BY <2>2, <4>1, <4>2
    <3> QED BY <3>1, <3>2
  <2>9. Good(m)
    BY <2>7, <2>8
  <2> HIDE DEF Good
  <2> QED BY <2>1, <2>9, Zenon DEF G
<1> HIDE DEF G
<1>3. \A m \in 0 .. n : m \in G
  BY <1>1, <1>2, SetInduction
<1>4. n \in G
  BY <1>3
<1> QED BY <1>4 DEF G, Iterates

----------------------------------------------------------------------------
(* Sequences *)

\* u is s and then t.
Joined(u, s, t) ==
    /\ Len(u) = Len(s) + Len(t)
    /\ \A i \in 1 .. Len(s) : u[i] = s[i]
    /\ \A i \in 1 .. Len(t) : u[Len(s) + i] = t[i]

\* The parts of a concatenation.
LEMMA ConcatParts ==
    ASSUME NEW T, NEW s \in Seq(T), NEW t \in Seq(T)
    PROVE  s \o t \in Seq(T) /\ Joined(s \o t, s, t)
<1>0. PICK u : u = s \o t
  OBVIOUS
<1>1. Len(s) \in Nat /\ Len(t) \in Nat
  OBVIOUS
<1>2. u \in Seq(T) /\ Len(u) = Len(s) + Len(t)
  BY <1>0, ConcatProperties
<1>3. ASSUME NEW i \in 1 .. Len(s) PROVE u[i] = s[i]
  BY <1>0, <1>1, ConcatProperties
<1>4. ASSUME NEW i \in 1 .. Len(t) PROVE u[Len(s) + i] = t[i]
  <2>1. Len(s) + i \in 1 .. Len(s) + Len(t) /\ ~(Len(s) + i <= Len(s)) /\ Len(s) + i - Len(s) = i
    BY <1>1
  <2> QED BY <1>0, <2>1, ConcatProperties
<1> QED BY <1>0, <1>2, <1>3, <1>4 DEF Joined

----------------------------------------------------------------------------
(* A window over a growing sequence *)

\* `window` is the end of `all`, and as long as `size` allows.
Windowed(window, all, size) ==
    /\ Len(window) <= size /\ Len(window) <= Len(all)
    /\ Len(window) < size => Len(window) = Len(all)
    /\ \A i \in 1 .. Len(window) : window[i] = all[Len(all) - Len(window) + i]

\* What is repeated in `all` is more than `size` apart.
Spaced(all, size) ==
    \A i, j \in DOMAIN all : i < j /\ all[i] = all[j] => j - i > size

\* A new element comes in at the end, the oldest one makes room for it.
Slid(window, e, size) ==
    LET grown == Append(window, e)
    IN  IF Len(grown) > size THEN SubSeq(grown, Len(grown) - size + 1, Len(grown)) ELSE grown

\* The window slides along.
LEMMA WindowSlides ==
    ASSUME NEW K, NEW window \in Seq(K), NEW all \in Seq(K), NEW e \in K, NEW size \in Nat,
           Windowed(window, all, size)
    PROVE  Slid(window, e, size) \in Seq(K) /\ Windowed(Slid(window, e, size), Append(all, e), size)
<1> DEFINE n == Len(window)
           total == Len(all)
           grown == Append(window, e)
           more == Append(all, e)
           slid == Slid(window, e, size)
<1>1. n \in Nat /\ total \in Nat
  OBVIOUS
<1>2. /\ n <= size /\ n <= total /\ (n < size => n = total)
      /\ \A i \in 1 .. n : window[i] = all[total - n + i]
  BY DEF Windowed
<1>3. /\ Len(more) = total + 1 /\ more[total + 1] = e
      /\ \A i \in 1 .. total : more[i] = all[i]
  BY AppendProperties
<1>4. /\ grown \in Seq(K) /\ Len(grown) = n + 1 /\ grown[n + 1] = e
      /\ \A i \in 1 .. n : grown[i] = window[i]
  BY AppendProperties
<1>5. slid = IF Len(grown) > size THEN SubSeq(grown, Len(grown) - size + 1, Len(grown)) ELSE grown
  BY DEF Slid
<1> HIDE DEF n, total, grown, more, slid
<1>6. \A i \in 1 .. n + 1 : grown[i] = more[total - n + i]
  <2> SUFFICES ASSUME NEW i \in 1 .. n + 1 PROVE grown[i] = more[total - n + i]
    OBVIOUS
  <2>1. CASE i = n + 1
    BY <2>1, <1>1, <1>3, <1>4
  <2>2. CASE i # n + 1
    <3>1. i \in 1 .. n /\ total - n + i \in 1 .. total
      BY <2>2, <1>1, <1>2
    <3> QED BY <3>1, <1>2, <1>3, <1>4
  <2> QED BY <2>1, <2>2
<1>7. CASE n + 1 > size
  <2>1. n = size
    BY <1>7, <1>1, <1>2
  <2>2. slid = SubSeq(grown, 2, n + 1)
    BY <1>4, <1>5, <1>7, <2>1, <1>1
  <2>3. \A i \in 2 .. n + 1 : grown[i] \in K
    BY <1>1, <1>4
  <2>4. /\ slid \in Seq(K) /\ Len(slid) = (IF 2 <= n + 1 THEN n + 1 - 2 + 1 ELSE 0)
        /\ \A i \in 1 .. n + 1 - 2 + 1 : slid[i] = grown[2 + i - 1]
    BY <2>2, <2>3, <1>1, SubSeqProperties
  <2>5. Len(slid) = n
    BY <2>4, <1>1
  <2>6. ASSUME NEW i \in 1 .. n PROVE slid[i] = more[total + 1 - n + i]
    <3>1. i + 1 \in 1 .. n + 1 /\ i \in 1 .. n + 1 - 2 + 1 /\ 2 + i - 1 = i + 1
      BY <1>1
    <3>2. slid[i] = grown[i + 1]
      BY <3>1, <2>4
    <3>3. grown[i + 1] = more[total - n + (i + 1)]
      BY <3>1, <1>6
    <3> QED BY <3>2, <3>3, <1>1
  <2>7. Windowed(slid, more, size)
    BY <2>1, <2>5, <2>6, <1>1, <1>2, <1>3 DEF Windowed
  <2> QED BY <2>4, <2>7 DEF slid, more
<1>8. CASE ~(n + 1 > size)
  <2>1. slid = grown /\ n = total
    BY <1>8, <1>4, <1>5, <1>1, <1>2
  <2>2. Windowed(slid, more, size)
    BY <2>1, <1>8, <1>1, <1>3, <1>4, <1>6 DEF Windowed
  <2> QED BY <2>1, <2>2, <1>4 DEF slid, more
<1> QED BY <1>7, <1>8

\* An element that the window does not hold is far from its last occurrence.
LEMMA NewIsSpaced ==
    ASSUME NEW K, NEW window \in Seq(K), NEW all \in Seq(K), NEW e \in K, NEW size \in Nat,
           Windowed(window, all, size), Spaced(all, size),
           \A i \in 1 .. Len(window) : window[i] # e
    PROVE  Spaced(Append(all, e), size)
<1> DEFINE n == Len(window)
           total == Len(all)
           more == Append(all, e)
<1>1. n \in Nat /\ total \in Nat /\ DOMAIN all = 1 .. total
  OBVIOUS
<1>2. /\ n <= size /\ n <= total /\ (n < size => n = total)
      /\ \A i \in 1 .. n : window[i] = all[total - n + i]
  BY DEF Windowed
<1>3. /\ DOMAIN more = 1 .. total + 1 /\ more[total + 1] = e
      /\ \A i \in 1 .. total : more[i] = all[i]
  BY AppendProperties, LenProperties
<1>4. /\ \A i, j \in 1 .. total : i < j /\ all[i] = all[j] => j - i > size
      /\ \A i \in 1 .. n : window[i] # e
  BY <1>1 DEF Spaced
<1> HIDE DEF n, total, more
<1> SUFFICES ASSUME NEW i \in 1 .. total + 1, NEW j \in 1 .. total + 1, i < j, more[i] = more[j]
             PROVE  j - i > size
  BY <1>3 DEF Spaced, more
<1>5. CASE j <= total
  <2>1. i \in 1 .. total /\ j \in 1 .. total
    BY <1>5, <1>1
  <2> QED BY <2>1, <1>3, <1>4
<1>6. CASE ~(j <= total)
  <2>1. j = total + 1 /\ i \in 1 .. total
    BY <1>6, <1>1
  <2>2. all[i] = e
    BY <2>1, <1>3
  <2>3. SUFFICES ASSUME ~(j - i > size) PROVE FALSE
    OBVIOUS
  <2>4. i - (total - n) \in 1 .. n /\ total - n + (i - (total - n)) = i
    BY <2>1, <2>3, <1>1, <1>2
  <2>5. window[i - (total - n)] = all[total - n + (i - (total - n))]
    BY <2>4, <1>2
  <2> QED BY <2>2, <2>4, <2>5, <1>4
<1> QED BY <1>5, <1>6

----------------------------------------------------------------------------
(* What retain leaves *)

\* The recursion of Without, for the first m elements of s.
KeptUpTo(kept, s, S, m) ==
    \A n \in 0 .. m :
        kept[n] = IF n = 0 THEN <<>>
                  ELSE IF s[n] \in S THEN kept[n - 1] ELSE Append(kept[n - 1], s[n])

\* The recursion has a solution.
LEMMA KeptExists ==
    ASSUME NEW T, NEW s \in Seq(T), NEW S
    PROVE  \E kept \in [0 .. Len(s) -> Seq(T)] : KeptUpTo(kept, s, S, Len(s))
<1> DEFINE Good(m) == \E kept \in [0 .. m -> Seq(T)] : KeptUpTo(kept, s, S, m)
           G == {m \in 0 .. Len(s) : Good(m)}
<1>1. Len(s) \in Nat /\ \A n \in 1 .. Len(s) : s[n] \in T
  OBVIOUS
<1>2. 0 \in G
  <2>1. PICK kept : kept = [n \in 0 .. 0 |-> <<>>]
    OBVIOUS
  <2>2. kept \in [0 .. 0 -> Seq(T)] /\ KeptUpTo(kept, s, S, 0)
    BY <2>1 DEF KeptUpTo
  <2> QED BY <1>1, <2>2
<1>3. ASSUME NEW m \in 1 .. Len(s), m - 1 \in G PROVE m \in G
  <2>1. m - 1 \in 0 .. Len(s) /\ m # 0 /\ m \in Nat /\ m - 1 \in 0 .. m - 1
    BY <1>1
  <2>2. PICK old \in [0 .. m - 1 -> Seq(T)] : KeptUpTo(old, s, S, m - 1)
    BY <1>3
  <2> HIDE DEF G
  <2>3. PICK last : last = IF s[m] \in S THEN old[m - 1] ELSE Append(old[m - 1], s[m])
    OBVIOUS
  <2>4. last \in Seq(T)
    <3>1. old[m - 1] \in Seq(T)
      BY <2>1
    <3> QED BY <1>1, <2>3, <3>1
  <2>5. PICK kept : kept = [n \in 0 .. m |-> IF n = m THEN last ELSE old[n]]
    OBVIOUS
  <2>6. kept \in [0 .. m -> Seq(T)]
    <3>1. \A n \in 0 .. m : n # m => n \in 0 .. m - 1
      BY <2>1
    <3> QED BY <2>4, <2>5, <3>1
  <2>7. KeptUpTo(kept, s, S, m)
    <3> SUFFICES ASSUME NEW n \in 0 .. m
                 PROVE  kept[n] = IF n = 0 THEN <<>>
                                  ELSE IF s[n] \in S THEN kept[n - 1] ELSE Append(kept[n - 1], s[n])
      BY DEF KeptUpTo
    <3>1. CASE n = m
      <4>1. kept[m] = last /\ kept[m - 1] = old[m - 1]
        BY <2>1, <2>5
      <4> QED BY <3>1, <2>1, <2>3, <4>1
    <3>2. CASE n # m
      <4>1. n \in 0 .. m - 1 /\ (n # 0 => n - 1 \in 0 .. m - 1)
        BY <3>2, <2>1
      <4>2. kept[n] = old[n] /\ (n # 0 => kept[n - 1] = old[n - 1])
        BY <4>1, <2>1, <2>5
      <4> QED BY <2>2, <4>1, <4>2 DEF KeptUpTo
    <3> QED BY <3>1, <3>2
  <2>8. Good(m)
    BY <2>6, <2>7
  <2> QED BY <1>1, <2>8 DEF G
<1> HIDE DEF G
<1>4. \A m \in 0 .. Len(s) : m \in G
  BY <1>1, <1>2, <1>3, SetInduction
<1>5. Len(s) \in G
  BY <1>1, <1>4
<1> QED BY <1>5 DEF G

\* So Without is the end of a solution.
LEMMA WithoutIsKept ==
    ASSUME NEW T, NEW s \in Seq(T), NEW S
    PROVE  \E kept : KeptUpTo(kept, s, S, Len(s)) /\ Without(s, S) = kept[Len(s)]
<1> DEFINE Body(kept) == [n \in 0 .. Len(s) |->
              IF n = 0 THEN <<>>
              ELSE IF s[n] \in S THEN kept[n - 1] ELSE Append(kept[n - 1], s[n])]
           chosen == CHOOSE kept : kept = Body(kept)
<1>1. PICK k \in [0 .. Len(s) -> Seq(T)] : KeptUpTo(k, s, S, Len(s))
  BY KeptExists
<1>2. k = Body(k)
  BY <1>1 DEF KeptUpTo
<1>3. chosen = Body(chosen)
  BY <1>2, Zenon
<1>4. Without(s, S) = chosen[Len(s)]
  BY Zenon DEF Without
<1>5. KeptUpTo(chosen, s, S, Len(s))
  <2> HIDE DEF chosen
  <2> QED BY <1>3 DEF KeptUpTo
<1> QED BY <1>4, <1>5

\* `at` leads from what is left to where it was: in order, and to all that
\* was not taken out.
LeftAt(at, w, s, S, m) ==
    /\ at \in [1 .. Len(w) -> 1 .. m]
    /\ \A i, j \in 1 .. Len(w) : i < j => at[i] < at[j]
    /\ \A i \in 1 .. Len(w) : w[i] = s[at[i]] /\ s[at[i]] \notin S
    /\ \A j \in 1 .. m : s[j] \notin S => \E i \in 1 .. Len(w) : at[i] = j

\* Nothing else is left, nothing twice, and if nothing is missing nothing has
\* changed.
LEMMA WithoutProperties ==
    ASSUME NEW T, NEW s \in Seq(T), NEW S
    PROVE  /\ Without(s, S) \in Seq(T) /\ Len(Without(s, S)) <= Len(s)
           /\ Len(Without(s, S)) = Len(s) => Without(s, S) = s
           /\ \E at : LeftAt(at, Without(s, S), s, S, Len(s))
<1>1. PICK kept : KeptUpTo(kept, s, S, Len(s)) /\ Without(s, S) = kept[Len(s)]
  BY WithoutIsKept
<1> DEFINE Fits(n) == /\ kept[n] \in Seq(T) /\ Len(kept[n]) <= n
                      /\ Len(kept[n]) = n => \A i \in 1 .. n : kept[n][i] = s[i]
                      /\ \E at : LeftAt(at, kept[n], s, S, n)
           G == {n \in 0 .. Len(s) : Fits(n)}
<1>2. Len(s) \in Nat /\ \A n \in 1 .. Len(s) : s[n] \in T
  OBVIOUS
<1>3. \A n \in 0 .. Len(s) : n \in G
  <2>1. 0 \in G
    <3>1. kept[0] = <<>>
      BY <1>1, <1>2 DEF KeptUpTo
    <3>2. PICK at : at = [i \in 1 .. 0 |-> i]
      OBVIOUS
    <3>3. LeftAt(at, kept[0], s, S, 0)
      BY <3>1, <3>2 DEF LeftAt
    <3>4. Fits(0)
      BY <3>1, <3>3
    <3> QED BY <1>2, <3>4
  <2>2. ASSUME NEW n \in 1 .. Len(s), n - 1 \in G PROVE n \in G
    <3>1. n - 1 \in 0 .. Len(s) /\ n \in 1 .. Len(s) /\ n \in Nat
      BY <1>2
    <3>2. Fits(n - 1)
      BY <2>2
    <3> HIDE DEF G
    <3>3. PICK old : old = kept[n - 1]
      OBVIOUS
    <3>4. PICK at : LeftAt(at, old, s, S, n - 1)
      BY <3>2, <3>3
    <3>5. old \in Seq(T) /\ Len(old) \in Nat /\ Len(old) <= n - 1
            /\ (Len(old) = n - 1 => \A i \in 1 .. n - 1 : old[i] = s[i])
      BY <3>2, <3>3
    <3>6. kept[n] = IF s[n] \in S THEN old ELSE Append(old, s[n])
      BY <1>1, <1>2, <3>1, <3>3 DEF KeptUpTo
    <3>7. CASE s[n] \in S
      <4>1. kept[n] = old /\ Len(old) # n
        BY <3>1, <3>5, <3>6, <3>7
      <4>2. LeftAt(at, old, s, S, n)
        <5>1. at \in [1 .. Len(old) -> 1 .. n]
          BY <3>1, <3>4, <3>5 DEF LeftAt
        <5>2. \A j \in 1 .. n : s[j] \notin S => \E i \in 1 .. Len(old) : at[i] = j
          BY <3>1, <3>4, <3>7 DEF LeftAt
        <5> QED BY <3>4, <5>1, <5>2 DEF LeftAt
      <4>3. Fits(n)
        BY <3>1, <3>5, <4>1, <4>2
      <4> QED BY <3>1, <4>3 DEF G
    <3>8. CASE s[n] \notin S
      <4>1. PICK new : new = Append(old, s[n])
        OBVIOUS
      <4>2. /\ kept[n] = new /\ new \in Seq(T) /\ Len(new) = Len(old) + 1 /\ Len(new) \in Nat
            /\ new[Len(old) + 1] = s[n] /\ \A i \in 1 .. Len(old) : new[i] = old[i]
        BY <1>2, <3>1, <3>5, <3>6, <3>8, <4>1, AppendProperties
      <4>3. PICK more : more = [i \in 1 .. Len(new) |-> IF i = Len(new) THEN n ELSE at[i]]
        OBVIOUS
      <4>4. LeftAt(more, new, s, S, n)
        <5>1. /\ \A i \in 1 .. Len(old) : more[i] = at[i] /\ at[i] \in 1 .. n - 1
              /\ more[Len(new)] = n
          BY <3>1, <3>4, <3>5, <4>2, <4>3 DEF LeftAt
        <5>2. \A i \in 1 .. Len(new) : i = Len(new) \/ i \in 1 .. Len(old)
          BY <3>5, <4>2
        <5>3. more \in [1 .. Len(new) -> 1 .. n]
          <6>1. \A i \in 1 .. Len(new) : more[i] \in 1 .. n
            BY <3>1, <5>1, <5>2
          <6> QED BY <4>3, <6>1
        <5>4. \A i, j \in 1 .. Len(new) : i < j => more[i] < more[j]
          <6> SUFFICES ASSUME NEW i \in 1 .. Len(new), NEW j \in 1 .. Len(new), i < j
                       PROVE  more[i] < more[j]
            OBVIOUS
          <6>1. i \in 1 .. Len(old)
            BY <3>5, <4>2
          <6>2. CASE j = Len(new)
            BY <3>1, <5>1, <6>1, <6>2
          <6>3. CASE j \in 1 .. Len(old)
            <7>1. at[i] < at[j]
              BY <3>4, <6>1, <6>3 DEF LeftAt
            <7> QED BY <5>1, <6>1, <6>3, <7>1
          <6> QED BY <5>2, <6>2, <6>3
        <5>5. \A i \in 1 .. Len(new) : new[i] = s[more[i]] /\ s[more[i]] \notin S
          BY <3>4, <3>8, <4>2, <5>1, <5>2 DEF LeftAt
        <5>6. \A j \in 1 .. n : s[j] \notin S => \E i \in 1 .. Len(new) : more[i] = j
          <6> SUFFICES ASSUME NEW j \in 1 .. n, s[j] \notin S
                       PROVE  \E i \in 1 .. Len(new) : more[i] = j
            OBVIOUS
          <6>1. CASE j = n
            <7>1. Len(new) \in 1 .. Len(new)
              BY <3>5, <4>2
            <7> QED BY <5>1, <6>1, <7>1
          <6>2. CASE j # n
            <7>1. PICK i \in 1 .. Len(old) : at[i] = j
              BY <3>1, <3>4, <6>2 DEF LeftAt
            <7>2. i \in 1 .. Len(new)
              BY <3>5, <4>2
            <7> QED BY <5>1, <7>1, <7>2
          <6> QED BY <6>1, <6>2
        <5> QED BY <5>3, <5>4, <5>5, <5>6 DEF LeftAt
      <4>5. Len(new) <= n /\ (Len(new) = n => \A i \in 1 .. n : new[i] = s[i])
        BY <3>1, <3>5, <4>2
      <4>6. Fits(n)
        BY <4>2, <4>4, <4>5
      <4> QED BY <3>1, <4>6 DEF G
    <3> QED BY <3>7, <3>8
  <2> HIDE DEF G
  <2> QED BY <1>2, <2>1, <2>2, SetInduction
<1>4. Fits(Len(s))
  BY <1>2, <1>3
<1>5. PICK w : w = kept[Len(s)]
  OBVIOUS
<1>6. /\ w \in Seq(T) /\ Len(w) <= Len(s) /\ (Len(w) = Len(s) => \A i \in 1 .. Len(s) : w[i] = s[i])
      /\ \E at : LeftAt(at, w, s, S, Len(s))
  BY <1>4, <1>5
<1>7. Len(w) = Len(s) => w = s
  BY <1>6, SeqEqual
<1> QED BY <1>1, <1>5, <1>6, <1>7

----------------------------------------------------------------------------
(* What a queue adds up to *)

\* The recursion of Total, for the first m elements of s.
SumsUpTo(sum, s, m) == \A n \in 0 .. m : sum[n] = IF n = 0 THEN 0 ELSE sum[n - 1] + s[n]

\* The recursion has a solution, in the numbers.
LEMMA SumsExist ==
    ASSUME NEW s \in Seq(Nat)
    PROVE  \E sum \in [0 .. Len(s) -> Nat] : SumsUpTo(sum, s, Len(s))
<1> DEFINE Good(m) == \E sum \in [0 .. m -> Nat] : SumsUpTo(sum, s, m)
           G == {m \in 0 .. Len(s) : Good(m)}
<1>1. Len(s) \in Nat /\ \A n \in 1 .. Len(s) : s[n] \in Nat
  OBVIOUS
<1>2. 0 \in G
  <2>1. PICK sum : sum = [n \in 0 .. 0 |-> 0]
    OBVIOUS
  <2>2. sum \in [0 .. 0 -> Nat] /\ SumsUpTo(sum, s, 0)
    BY <2>1 DEF SumsUpTo
  <2> QED BY <1>1, <2>2
<1>3. ASSUME NEW m \in 1 .. Len(s), m - 1 \in G PROVE m \in G
  <2>1. m - 1 \in 0 .. Len(s) /\ m # 0 /\ m \in Nat /\ m - 1 \in 0 .. m - 1
    BY <1>1
  <2>2. PICK old \in [0 .. m - 1 -> Nat] : SumsUpTo(old, s, m - 1)
    BY <1>3
  <2> HIDE DEF G
  <2>3. PICK last : last = old[m - 1] + s[m]
    OBVIOUS
  <2>4. last \in Nat
    <3>1. old[m - 1] \in Nat
      BY <2>1
    <3> QED BY <1>1, <2>3, <3>1
  <2>5. PICK sum : sum = [n \in 0 .. m |-> IF n = m THEN last ELSE old[n]]
    OBVIOUS
  <2>6. sum \in [0 .. m -> Nat]
    <3>1. \A n \in 0 .. m : n # m => n \in 0 .. m - 1
      BY <2>1
    <3> QED BY <2>4, <2>5, <3>1
  <2>7. SumsUpTo(sum, s, m)
    <3> SUFFICES ASSUME NEW n \in 0 .. m
                 PROVE  sum[n] = IF n = 0 THEN 0 ELSE sum[n - 1] + s[n]
      BY DEF SumsUpTo
    <3>1. CASE n = m
      <4>1. sum[m] = last /\ sum[m - 1] = old[m - 1]
        BY <2>1, <2>5
      <4> QED BY <3>1, <2>1, <2>3, <4>1
    <3>2. CASE n # m
      <4>1. n \in 0 .. m - 1 /\ (n # 0 => n - 1 \in 0 .. m - 1)
        BY <3>2, <2>1
      <4>2. sum[n] = old[n] /\ (n # 0 => sum[n - 1] = old[n - 1])
        BY <4>1, <2>1, <2>5
      <4> QED BY <2>2, <4>1, <4>2 DEF SumsUpTo
    <3> QED BY <3>1, <3>2
  <2>8. Good(m)
    BY <2>6, <2>7
  <2>9. m \in 0 .. Len(s)
    BY <1>1
  <2> HIDE DEF Good
  <2> QED BY <2>8, <2>9, Zenon DEF G
<1> HIDE DEF G
<1>4. \A m \in 0 .. Len(s) : m \in G
  BY <1>1, <1>2, <1>3, SetInduction
<1>5. Len(s) \in G
  BY <1>1, <1>4
<1> QED BY <1>5 DEF G

\* Sums of sequences that agree are the same.
LEMMA SumsAgree ==
    ASSUME NEW m \in Nat, NEW a, NEW b, NEW s, NEW t, SumsUpTo(a, s, m), SumsUpTo(b, t, m),
           \A n \in 1 .. m : s[n] = t[n]
    PROVE  \A n \in 0 .. m : a[n] = b[n]
<1> DEFINE G == {n \in 0 .. m : a[n] = b[n]}
<1>1. 0 \in G
  BY DEF SumsUpTo
<1>2. ASSUME NEW n \in 1 .. m, n - 1 \in G PROVE n \in G
  <2>1. n \in 0 .. m /\ n # 0 /\ n - 1 \in 0 .. m
    OBVIOUS
  <2>2. a[n] = a[n - 1] + s[n] /\ b[n] = b[n - 1] + t[n]
    BY <2>1 DEF SumsUpTo
  <2> QED BY <1>2, <2>1, <2>2
<1> HIDE DEF G
<1>3. \A n \in 0 .. m : n \in G
  BY <1>1, <1>2, SetInduction
<1> QED BY <1>3 DEF G

\* So Total is the end of the one solution.
LEMMA TotalIsSum ==
    ASSUME NEW s \in Seq(Nat), NEW sum, SumsUpTo(sum, s, Len(s))
    PROVE  Total(s) = sum[Len(s)]
<1> DEFINE Body(f) == [n \in 0 .. Len(s) |-> IF n = 0 THEN 0 ELSE f[n - 1] + s[n]]
           chosen == CHOOSE f : f = Body(f)
<1>1. PICK k \in [0 .. Len(s) -> Nat] : SumsUpTo(k, s, Len(s))
  BY SumsExist
<1>2. k = Body(k)
  BY <1>1 DEF SumsUpTo
<1>3. chosen = Body(chosen)
  BY <1>2, Zenon
<1>4. Total(s) = chosen[Len(s)]
  BY Zenon DEF Total
<1>5. SumsUpTo(chosen, s, Len(s))
  <2> HIDE DEF chosen
  <2> QED BY <1>3 DEF SumsUpTo
<1> HIDE DEF chosen
<1>6. Len(s) \in Nat /\ \A n \in 1 .. Len(s) : s[n] = s[n]
  OBVIOUS
<1>7. \A n \in 0 .. Len(s) : chosen[n] = sum[n]
  BY <1>5, <1>6, SumsAgree
<1> QED BY <1>4, <1>6, <1>7

\* An empty queue has nothing; a new element adds its size; the first one takes
\* its size with it.
LEMMA TotalProperties ==
    /\ Total(<<>>) = 0
    /\ \A s \in Seq(Nat) : Total(s) \in Nat
    /\ \A s \in Seq(Nat), e \in Nat : Total(Append(s, e)) = Total(s) + e
    /\ \A s \in Seq(Nat) : s # <<>> => Total(Tail(s)) + Head(s) = Total(s)
<1>1. ASSUME NEW s \in Seq(Nat)
      PROVE  \E sum \in [0 .. Len(s) -> Nat] : SumsUpTo(sum, s, Len(s)) /\ Total(s) = sum[Len(s)]
  BY SumsExist, TotalIsSum
<1>2. Total(<<>>) = 0
  <2>1. PICK e : e = <<>>
    OBVIOUS
  <2>3. e \in Seq(Nat) /\ Len(e) = 0
    BY <2>1
  <2>2. PICK sum \in [0 .. Len(e) -> Nat] : SumsUpTo(sum, e, Len(e)) /\ Total(e) = sum[Len(e)]
    BY <1>1, <2>3
  <2> QED BY <2>1, <2>2, <2>3 DEF SumsUpTo
<1>3. ASSUME NEW s \in Seq(Nat) PROVE Total(s) \in Nat
  <2>1. Len(s) \in Nat
    OBVIOUS
  <2> QED BY <1>1, <2>1
<1>4. ASSUME NEW s \in Seq(Nat), NEW e \in Nat PROVE Total(Append(s, e)) = Total(s) + e
  <2>1. PICK n \in Nat : n = Len(s)
    OBVIOUS
  <2>2. PICK t \in Seq(Nat) : t = Append(s, e)
    <3>1. Append(s, e) \in Seq(Nat)
      BY AppendProperties
    <3> QED BY <3>1
  <2>3. Len(t) = n + 1 /\ t[n + 1] = e /\ \A i \in 1 .. n : t[i] = s[i]
    BY <2>1, <2>2, AppendProperties
  <2>4. PICK a : SumsUpTo(a, s, n) /\ Total(s) = a[n]
    BY <1>1, <2>1
  <2>5. PICK b : SumsUpTo(b, t, n + 1) /\ Total(t) = b[n + 1]
    BY <1>1, <2>3
  <2>6. SumsUpTo(b, t, n)
    BY <2>5 DEF SumsUpTo
  <2>7. b[n] = a[n]
    <3>1. \A i \in 0 .. n : b[i] = a[i]
      BY <2>3, <2>4, <2>6, SumsAgree
    <3> QED BY <3>1
  <2>8. b[n + 1] = b[n] + t[n + 1]
    <3>1. n + 1 \in 0 .. (n + 1) /\ n + 1 # 0 /\ n + 1 - 1 = n
      OBVIOUS
    <3> QED BY <3>1, <2>5 DEF SumsUpTo
  <2> QED BY <2>2, <2>3, <2>4, <2>5, <2>7, <2>8
<1>5. ASSUME NEW s \in Seq(Nat), s # <<>> PROVE Total(Tail(s)) + Head(s) = Total(s)
  <2>1. PICK n \in Nat : n + 1 = Len(s)
    <3>1. Len(s) \in Nat /\ Len(s) # 0
      BY <1>5, EmptySeq
    <3>2. Len(s) - 1 \in Nat /\ Len(s) - 1 + 1 = Len(s)
      BY <3>1
    <3> QED BY <3>2
  <2>2. PICK t \in Seq(Nat) : t = Tail(s)
    <3>1. Tail(s) \in Seq(Nat)
      BY <1>5, HeadTailProperties
    <3> QED BY <3>1
  <2>3. /\ Len(t) = n /\ \A i \in 1 .. n : t[i] = s[i + 1]
        /\ Head(s) = s[1] /\ \A i \in 1 .. (n + 1) : s[i] \in Nat
    BY <1>5, <2>1, <2>2, HeadTailProperties
  <2>4. PICK a \in [0 .. n -> Nat] : SumsUpTo(a, t, n) /\ Total(t) = a[n]
    BY <1>1, <2>3
  <2>5. PICK b \in [0 .. (n + 1) -> Nat] : SumsUpTo(b, s, n + 1) /\ Total(s) = b[n + 1]
    BY <1>1, <2>1
  <2> DEFINE G == {i \in 0 .. n : b[i + 1] = a[i] + s[1]}
  <2>6. 0 \in G
    <3>1. a[0] = 0 /\ b[0] = 0 /\ s[1] \in Nat
      BY <2>3, <2>4, <2>5 DEF SumsUpTo
    <3>2. 1 \in 0 .. (n + 1) /\ 1 - 1 = 0
      OBVIOUS
    <3>3. b[1] = b[0] + s[1]
      BY <2>5, <3>2 DEF SumsUpTo
    <3> QED BY <3>1, <3>3
  <2>7. ASSUME NEW i \in 1 .. n, i - 1 \in G PROVE i \in G
    <3>1. /\ i \in 0 .. n /\ i # 0 /\ i - 1 \in 0 .. n
          /\ i + 1 \in 0 .. (n + 1) /\ i + 1 # 0 /\ i + 1 - 1 = i /\ i - 1 + 1 = i
      OBVIOUS
    <3>2. a[i] = a[i - 1] + s[i + 1]
      BY <3>1, <2>3, <2>4 DEF SumsUpTo
    <3>3. PICK j : j = i + 1 /\ j \in 0 .. (n + 1) /\ j # 0 /\ j - 1 = i
      BY <3>1
    <3>4. b[j] = b[i] + s[j]
      BY <3>3, <2>5 DEF SumsUpTo
    <3>5. b[i] = a[i - 1] + s[1]
      BY <2>7, <3>1
    <3>6. a[i - 1] \in Nat /\ s[1] \in Nat /\ s[j] \in Nat
      BY <3>1, <3>3, <2>3
    <3>9. PICK x \in Nat, y \in Nat, z \in Nat : x = a[i - 1] /\ y = s[1] /\ z = s[j]
      BY <3>6, Zenon
    <3>7. b[j] = (x + y) + z /\ a[i] = x + z
      BY <3>2, <3>3, <3>4, <3>5, <3>9
    <3>8. b[i + 1] = a[i] + s[1]
      <4>1. (x + y) + z = (x + z) + y
        OBVIOUS
      <4>2. b[j] = a[i] + y
        BY <3>7, <4>1
      <4> QED BY <3>3, <3>9, <4>2, Zenon
    <3> QED BY <3>1, <3>8
  <2> HIDE DEF G
  <2>8. \A i \in 0 .. n : i \in G
    BY <2>6, <2>7, SetInduction
  <2>9. b[n + 1] = a[n] + s[1]
    BY <2>8 DEF G
  <2> QED BY <2>2, <2>3, <2>4, <2>5, <2>9
<1> QED BY <1>2, <1>3, <1>4, <1>5
=============================================================================
