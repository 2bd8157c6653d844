----------------------- MODULE MulticastDelegate_proofs -----------------------
(***************************************************************************)
(* What MulticastDelegate promises for every set of threads, delegates and *)
(* callbacks, every nesting of delegates and every depth of calls.         *)
(*                                                                         *)
(* A step changes the calls of one thread, and the rest only through the   *)
(* mutexes and the lists. The invariant is therefore one condition per     *)
(* thread, CallsOK, on its stack, the lists and the mutexes. The lemmas    *)
(* say how the ways in which a stack changes keep it, of whatever values:  *)
(* the innermost call moves on, ends, or makes another call.               *)
(***************************************************************************)
EXTENDS MulticastDelegate, SequenceTheorems, TLAPS

\* The calls that use the list without having to find it unlocked.
IsTraversing(f) == f.op \in Traversals /\ f.stage \notin {"enter", "throwing"}

\* A call f of thread t: who may make it, when it has the lock, and what a
\* traversal knows of the list.
FrameOK(t, f, m, h) ==
  /\ Allowed(t, f.op, f.del, f.cb)
  /\ f.stage = "enter" => ~f.locked /\ f.done = {}
  /\ f.stage \in {"inside", "callback", "resumed"} => f.locked \/ f.op = "peek"
  /\ f.op = "peek" => ~f.locked
  /\ f.locked => h[f.del] = t
  /\ IsTraversing(f) =>
       /\ f.todo \cup f.done = Registered(m[f.del])
       /\ f.todo \cap f.done = {}

\* Every call but the innermost is in a callback that called the next one.
Stacked(s) ==
  \A i \in 1..Len(s) : i < Len(s) =>
    s[i].stage = "resumed" /\ <<s[i].del, s[i+1].del>> \in Nested

\* No mutex is locked by two calls of one thread.
LockedOnce(s) ==
  \A i, j \in 1..Len(s) : i # j /\ s[i].del = s[j].del => ~(s[i].locked /\ s[j].locked)

\* Every mutex that t has locked belongs to one of its calls.
Owns(t, s, h) ==
  \A d \in Delegates : h[d] = t => \E i \in 1..Len(s) : s[i].del = d /\ s[i].locked

CallsOK(t, s, m, h) ==
  /\ s \in Seq(Frame)
  /\ \A i \in 1..Len(s) : FrameOK(t, s[i], m, h)
  /\ Stacked(s)
  /\ LockedOnce(s)
  /\ Owns(t, s, h)

IInv == TypeOK /\ \A t \in Threads : CallsOK(t, stack[t], map, holder)

----------------------------------------------------------------------------
(* Stacks as sequences.                                                    *)

\* Dropping the last element keeps the others.
LEMMA FrontFacts ==
  ASSUME NEW S, NEW s \in Seq(S), s # <<>>
  PROVE  /\ Len(s) \in Nat /\ Len(s) > 0
         /\ Last(s) = s[Len(s)] /\ Last(s) \in S
         /\ Front(s) \in Seq(S) /\ Len(Front(s)) = Len(s) - 1
         /\ \A i \in 1..(Len(s) - 1) : Front(s)[i] = s[i]
<1>1. Len(s) \in Nat /\ Len(s) > 0
  OBVIOUS
<1>2. Last(s) = s[Len(s)] /\ Last(s) \in S
  BY <1>1 DEF Last
<1>3. /\ SubSeq(s, 1, Len(s) - 1) \in Seq(S)
      /\ Len(SubSeq(s, 1, Len(s) - 1)) = Len(s) - 1
      /\ \A i \in 1..(Len(s) - 1) : SubSeq(s, 1, Len(s) - 1)[i] = s[i]
  <2>1. /\ 1 \in Int /\ Len(s) - 1 \in Int /\ Len(s) - 1 \in Nat
        /\ \A i \in 1..(Len(s) - 1) : s[i] \in S
    BY <1>1
  <2>2. SubSeq(s, 1, Len(s) - 1) \in Seq(S)
    BY ONLY <2>1, SubSeqProperties
  <2>3. Len(SubSeq(s, 1, Len(s) - 1)) = Len(s) - 1
    <3>. DEFINE k == Len(s)
                l == Len(SubSeq(s, 1, k - 1))
    <3>1. k \in Nat /\ k > 0
      BY <1>1
    <3>2. l = IF 1 <= k - 1 THEN (k - 1) - 1 + 1 ELSE 0
      BY ONLY <2>1, SubSeqProperties
    <3>. HIDE DEF k, l
    <3>3. l = k - 1
      BY <3>1, <3>2
    <3>. QED  BY <3>3 DEF k, l
  <2>4. \A i \in 1..(Len(s) - 1) : SubSeq(s, 1, Len(s) - 1)[i] = s[i]
    BY <1>1
  <2>. QED  BY <2>2, <2>3, <2>4
<1>. QED  BY <1>1, <1>2, <1>3 DEF Front

\* Exchanging the last element keeps the others and the length.
LEMMA ReplacedFacts ==
  ASSUME NEW S, NEW s \in Seq(S), s # <<>>, NEW f \in S
  PROVE  /\ Append(Front(s), f) \in Seq(S)
         /\ Append(Front(s), f) # <<>>
         /\ Len(Append(Front(s), f)) = Len(s)
         /\ \A i \in 1..(Len(s) - 1) : Append(Front(s), f)[i] = s[i]
         /\ Append(Front(s), f)[Len(s)] = f
         /\ Last(Append(Front(s), f)) = f
<1>. DEFINE r == Front(s)
<1>1. /\ Len(s) \in Nat /\ Len(s) > 0 /\ r \in Seq(S) /\ Len(r) = Len(s) - 1
      /\ \A i \in 1..(Len(s) - 1) : r[i] = s[i]
  BY FrontFacts
<1>. HIDE DEF r
<1>2. /\ Append(r, f) \in Seq(S) /\ Append(r, f) # <<>> /\ Len(Append(r, f)) = Len(s)
      /\ \A i \in 1..(Len(s) - 1) : Append(r, f)[i] = s[i]
      /\ Append(r, f)[Len(s)] = f
  BY <1>1
<1>3. Last(Append(r, f)) = f
  BY <1>2 DEF Last
<1>. QED  BY <1>2, <1>3 DEF r

\* Pushing on an exchanged last element, in one step and in two.
LEMMA PushedAsAppend ==
  ASSUME NEW S, NEW s \in Seq(S), NEW g \in S, NEW e \in S
  PROVE  s \o <<g, e>> = Append(Append(s, g), e)
<1>1. Len(s) \in Nat
  OBVIOUS
<1>2. /\ s \o <<g, e>> \in Seq(S) /\ Len(s \o <<g, e>>) = Len(s) + 2
      /\ \A i \in 1..Len(s) : (s \o <<g, e>>)[i] = s[i]
      /\ (s \o <<g, e>>)[Len(s) + 1] = g /\ (s \o <<g, e>>)[Len(s) + 2] = e
  BY <1>1
<1>3. /\ Append(Append(s, g), e) \in Seq(S) /\ Len(Append(Append(s, g), e)) = Len(s) + 2
      /\ \A i \in 1..Len(s) : Append(Append(s, g), e)[i] = s[i]
      /\ Append(Append(s, g), e)[Len(s) + 1] = g
      /\ Append(Append(s, g), e)[Len(s) + 2] = e
  BY <1>1
<1>4. ASSUME NEW i \in 1..(Len(s) + 2)
      PROVE  (s \o <<g, e>>)[i] = Append(Append(s, g), e)[i]
  <2>1. i \in 1..Len(s) \/ i = Len(s) + 1 \/ i = Len(s) + 2
    BY <1>1
  <2>. QED  BY <2>1, <1>2, <1>3
<1>. QED  BY <1>2, <1>3, <1>4, SeqEqual

\* The fields of a call.
LEMMA FrameFields ==
  ASSUME NEW f \in Frame
  PROVE  /\ f.op \in Ops /\ f.del \in Delegates /\ f.stage \in Stages /\ f.locked \in BOOLEAN
         /\ f.todo \in SUBSET Keys /\ f.done \in SUBSET Keys
BY DEF Frame

----------------------------------------------------------------------------
(* How a step changes the calls of the thread that takes it.               *)

\* The innermost call f moves on to g, with the same lock or with its mutex.
LEMMA InnermostMovesOn ==
  ASSUME NEW t, t # Free, NEW s, NEW m, NEW h, NEW h2, CallsOK(t, s, m, h), s # <<>>,
         NEW g \in Frame, g.del = Last(s).del,
         h \in [Delegates -> Threads \cup {Free}],
         \/ g.locked = Last(s).locked /\ h2 = h
         \/ ~Last(s).locked /\ g.locked /\ h[g.del] = Free /\ h2 = [h EXCEPT ![g.del] = t],
         FrameOK(t, g, m, h2)
  PROVE  CallsOK(t, Append(Front(s), g), m, h2)
<1>. DEFINE r == Append(Front(s), g)
            n == Len(s)
<1>1. s \in Seq(Frame)
  BY DEF CallsOK
<1>2. /\ n \in Nat /\ n > 0 /\ Last(s) = s[n] /\ s[n] \in Frame
      /\ r \in Seq(Frame) /\ Len(r) = n /\ r[n] = g
      /\ \A i \in 1..(n - 1) : r[i] = s[i]
  <2>1. n \in Nat /\ n > 0 /\ Last(s) = s[n] /\ s[n] \in Frame
    BY <1>1 DEF Last
  <2>2. r \in Seq(Frame) /\ Len(r) = n /\ r[n] = g /\ \A i \in 1..(n - 1) : r[i] = s[i]
    BY <1>1, ReplacedFacts
  <2>. QED  BY <2>1, <2>2
<1>3. \A i \in 1..n : s[i] \in Frame
  BY <1>1
<1>4. g.del \in Delegates /\ g.locked \in BOOLEAN /\ s[n].del = g.del
  BY <1>2 DEF Frame
<1>5. \A d \in Delegates : h[d] = t => h2[d] = t
  BY <1>4
<1>6. \A i \in 1..n : i = n \/ i \in 1..(n - 1)
  BY <1>2
<1>. HIDE DEF r, n
<1>7. ASSUME NEW i \in 1..n
      PROVE  FrameOK(t, r[i], m, h2)
  <2>1. CASE i = n
    BY <2>1, <1>2
  <2>2. CASE i \in 1..(n - 1)
    <3>1. r[i] = s[i] /\ s[i].del \in Delegates /\ FrameOK(t, s[i], m, h)
      BY <2>2, <1>2, <1>3 DEF CallsOK, n, Frame
    <3>. QED  BY <3>1, <1>5 DEF FrameOK
  <2>. QED  BY <2>1, <2>2, <1>6
<1>8. Stacked(r)
  <2>. SUFFICES ASSUME NEW i \in 1..n, i < n
                PROVE  r[i].stage = "resumed" /\ <<r[i].del, r[i+1].del>> \in Nested
    BY <1>2 DEF Stacked
  <2>1. i \in 1..(n - 1) /\ i + 1 \in 1..n
    BY <1>2
  <2>2. r[i] = s[i] /\ r[i+1].del = s[i+1].del
    BY <2>1, <1>2, <1>4, <1>6
  <2>. QED  BY <2>2 DEF CallsOK, Stacked, n
<1>9. \A i \in 1..(n - 1) : s[i].del = g.del /\ s[i].locked => ~g.locked
  <2>. SUFFICES ASSUME NEW i \in 1..(n - 1), s[i].del = g.del, s[i].locked, g.locked
                PROVE  FALSE
    OBVIOUS
  <2>1. i \in 1..n /\ n \in 1..n /\ i # n
    BY <1>2
  <2>2. h[g.del] = t
    BY <2>1 DEF CallsOK, FrameOK, n
  <2>3. ~s[n].locked
    BY <2>1, <1>4 DEF CallsOK, LockedOnce, n
  <2>. QED  BY <2>2, <2>3, <1>2
<1>10. LockedOnce(r)
  <2>. SUFFICES ASSUME NEW i \in 1..n, NEW j \in 1..n, i # j, r[i].del = r[j].del,
                       r[i].locked, r[j].locked
                PROVE  FALSE
    BY <1>2 DEF LockedOnce
  <2>1. CASE i \in 1..(n - 1) /\ j \in 1..(n - 1)
    BY <2>1, <1>2 DEF CallsOK, LockedOnce, n
  <2>2. CASE i = n
    BY <2>2, <1>2, <1>6, <1>9
  <2>3. CASE j = n
    BY <2>3, <1>2, <1>6, <1>9
  <2>. QED  BY <2>1, <2>2, <2>3, <1>6
<1>11. Owns(t, r, h2)
  <2>. SUFFICES ASSUME NEW d \in Delegates, h2[d] = t
                PROVE  \E i \in 1..n : r[i].del = d /\ r[i].locked
    BY <1>2 DEF Owns
  <2>0. n \in 1..n
    BY <1>2
  <2>1. CASE h[d] = t
    <3>1. PICK i \in 1..n : s[i].del = d /\ s[i].locked
      BY <2>1 DEF CallsOK, Owns, n
    <3>2. CASE i = n
      <4>1. g.del = d /\ g.locked
        BY <3>1, <3>2, <1>2, <1>4
      <4>. QED  BY <4>1, <1>2, <2>0
    <3>3. CASE i \in 1..(n - 1)
      BY <3>1, <3>3, <1>2
    <3>. QED  BY <3>2, <3>3, <1>6
  <2>2. CASE h[d] # t
    <3>1. d = g.del /\ g.locked
      BY <2>2
    <3>. QED  BY <3>1, <1>2, <2>0
  <2>. QED  BY <2>1, <2>2
<1>. QED  BY <1>2, <1>7, <1>8, <1>10, <1>11 DEF CallsOK, r

\* A call looks only at the mutex it has locked and the list it goes through.
LEMMA FrameKept ==
  ASSUME NEW t, NEW f, NEW m, NEW m2, NEW h, NEW h2, FrameOK(t, f, m, h),
         f.locked => h2[f.del] = h[f.del],
         IsTraversing(f) => m2[f.del] = m[f.del]
  PROVE  FrameOK(t, f, m2, h2)
<1>1. f.locked => h2[f.del] = t
  BY DEF FrameOK
<1>2. IsTraversing(f) => /\ f.todo \cup f.done = Registered(m2[f.del])
                         /\ f.todo \cap f.done = {}
  BY DEF FrameOK
<1>. QED  BY <1>1, <1>2 DEF FrameOK

\* The innermost call ends and unlocks its mutex, having changed at most lists
\* that none of the other calls goes through.
LEMMA InnermostEnds ==
  ASSUME NEW t, t # Free, NEW s, NEW m, NEW m2, NEW h, CallsOK(t, s, m, h), s # <<>>,
         h \in [Delegates -> Threads \cup {Free}],
         \A i \in 1..(Len(s) - 1) : IsTraversing(s[i]) => m2[s[i].del] = m[s[i].del]
  PROVE  CallsOK(t, Front(s), m2, IF Last(s).locked THEN [h EXCEPT ![Last(s).del] = Free] ELSE h)
<1>. DEFINE r == Front(s)
            n == Len(s)
            h2 == IF s[n].locked THEN [h EXCEPT ![s[n].del] = Free] ELSE h
<1>1. s \in Seq(Frame)
  BY DEF CallsOK
<1>2. /\ n \in Nat /\ n > 0 /\ Last(s) = s[n] /\ n \in 1..n
      /\ r \in Seq(Frame) /\ Len(r) = n - 1
      /\ \A i \in 1..(n - 1) : r[i] = s[i]
  <2>1. n \in Nat /\ n > 0 /\ Last(s) = s[n]
    BY <1>1 DEF Last
  <2>2. r \in Seq(Frame) /\ Len(r) = n - 1 /\ \A i \in 1..(n - 1) : r[i] = s[i]
    BY <1>1, FrontFacts
  <2>. QED  BY <2>1, <2>2
<1>3. \A i \in 1..n : s[i].del \in Delegates
  BY <1>1, FrameFields
<1>. HIDE DEF r, n
<1>4. \A d \in Delegates : IF s[n].locked /\ d = s[n].del THEN h2[d] = Free ELSE h2[d] = h[d]
  BY <1>2, <1>3
<1>. HIDE DEF h2
<1>5. ASSUME NEW i \in 1..(n - 1)
      PROVE  FrameOK(t, r[i], m2, h2)
  <2>1. i \in 1..n /\ i # n /\ r[i] = s[i] /\ FrameOK(t, s[i], m, h)
    BY <1>2 DEF CallsOK, n
  <2>2. s[i].locked => h2[s[i].del] = h[s[i].del]
    <3>1. s[i].locked => ~(s[n].locked /\ s[i].del = s[n].del)
      BY <2>1, <1>2 DEF CallsOK, LockedOnce, n
    <3>. QED  BY <3>1, <2>1, <1>3, <1>4
  <2>3. IsTraversing(s[i]) => m2[s[i].del] = m[s[i].del]
    BY DEF n
  <2>4. FrameOK(t, s[i], m2, h2)
    BY <2>1, <2>2, <2>3, FrameKept
  <2>. QED  BY <2>1, <2>4
<1>6. Stacked(r)
  <2>. SUFFICES ASSUME NEW i \in 1..(n - 1), i < n - 1
                PROVE  r[i].stage = "resumed" /\ <<r[i].del, r[i+1].del>> \in Nested
    BY <1>2 DEF Stacked
  <2>1. i \in 1..n /\ i < n /\ i + 1 \in 1..(n - 1)
    BY <1>2
  <2>. QED  BY <2>1, <1>2 DEF CallsOK, Stacked, n
<1>7. LockedOnce(r)
  <2>. SUFFICES ASSUME NEW i \in 1..(n - 1), NEW j \in 1..(n - 1), i # j, r[i].del = r[j].del
                PROVE  ~(r[i].locked /\ r[j].locked)
    BY <1>2 DEF LockedOnce
  <2>1. i \in 1..n /\ j \in 1..n
    BY <1>2
  <2>. QED  BY <2>1, <1>2 DEF CallsOK, LockedOnce, n
<1>8. Owns(t, r, h2)
  <2>. SUFFICES ASSUME NEW d \in Delegates, h2[d] = t
                PROVE  \E i \in 1..(n - 1) : r[i].del = d /\ r[i].locked
    BY <1>2 DEF Owns
  <2>1. h[d] = t /\ ~(s[n].locked /\ d = s[n].del)
    BY <1>4
  <2>2. PICK i \in 1..n : s[i].del = d /\ s[i].locked
    BY <2>1 DEF CallsOK, Owns, n
  <2>3. i # n
    BY <2>1, <2>2
  <2>4. i \in 1..(n - 1)
    BY <2>3, <1>2
  <2>. QED  BY <2>2, <2>4, <1>2
<1>9. CallsOK(t, r, m2, h2)
  BY <1>2, <1>5, <1>6, <1>7, <1>8 DEF CallsOK
<1>. QED  BY <1>2, <1>9 DEF r, h2

\* A call that has just been made has locked nothing and seen nothing.
LEMMA EnterOK ==
  ASSUME NEW t, NEW m, NEW h, NEW op \in Ops, NEW d \in Delegates,
         NEW c \in Callbacks \cup {Absent}, Allowed(t, op, d, c)
  PROVE  /\ Enter(op, d, c) \in Frame
         /\ ~Enter(op, d, c).locked
         /\ Enter(op, d, c).del = d
         /\ FrameOK(t, Enter(op, d, c), m, h)
<1>1. Enter(op, d, c) \in Frame
  BY DEF Enter, Frame, Stages
<1>2. FrameOK(t, Enter(op, d, c), m, h)
  BY DEF Enter, FrameOK, IsTraversing
<1>. QED  BY <1>1, <1>2 DEF Enter

\* A callback of the innermost call calls a delegate.
LEMMA InnermostCalls ==
  ASSUME NEW t, NEW s, NEW m, NEW h, CallsOK(t, s, m, h), s # <<>>,
         Last(s).stage = "resumed",
         NEW e \in Frame, ~e.locked, <<Last(s).del, e.del>> \in Nested, FrameOK(t, e, m, h)
  PROVE  CallsOK(t, Append(s, e), m, h)
<1>. DEFINE r == Append(s, e)
            n == Len(s)
<1>1. /\ s \in Seq(Frame) /\ n \in Nat /\ n > 0 /\ Last(s) = s[n]
      /\ r \in Seq(Frame) /\ Len(r) = n + 1 /\ r[n + 1] = e
      /\ \A i \in 1..n : r[i] = s[i]
  <2>1. s \in Seq(Frame)
    BY DEF CallsOK
  <2>2. n \in Nat /\ n > 0 /\ Last(s) = s[n]
    BY <2>1 DEF Last
  <2>. QED  BY <2>1, <2>2
<1>2. \A i \in 1..(n + 1) : i \in 1..n \/ i = n + 1
  BY <1>1
<1>. HIDE DEF r, n
<1>3. \A i \in 1..(n + 1) : FrameOK(t, r[i], m, h)
  BY <1>1, <1>2 DEF CallsOK, n
<1>4. Stacked(r)
  <2>. SUFFICES ASSUME NEW i \in 1..(n + 1), i < n + 1
                PROVE  r[i].stage = "resumed" /\ <<r[i].del, r[i+1].del>> \in Nested
    BY <1>1 DEF Stacked
  <2>1. CASE i = n
    <3>1. i \in 1..n /\ r[i] = s[n] /\ r[i + 1] = e
      BY <2>1, <1>1
    <3>. QED  BY <3>1, <1>1
  <2>2. CASE i # n
    <3>1. i \in 1..n /\ i < n /\ i + 1 \in 1..n
      BY <2>2, <1>1
    <3>. QED  BY <3>1, <1>1 DEF CallsOK, Stacked, n
  <2>. QED  BY <2>1, <2>2
<1>5. LockedOnce(r)
  <2>. SUFFICES ASSUME NEW i \in 1..(n + 1), NEW j \in 1..(n + 1), i # j,
                       r[i].del = r[j].del, r[i].locked, r[j].locked
                PROVE  FALSE
    BY <1>1 DEF LockedOnce
  <2>1. i \in 1..n /\ j \in 1..n
    BY <1>1, <1>2
  <2>. QED  BY <2>1, <1>1 DEF CallsOK, LockedOnce, n
<1>6. Owns(t, r, h)
  <2>. SUFFICES ASSUME NEW d \in Delegates, h[d] = t
                PROVE  \E i \in 1..(n + 1) : r[i].del = d /\ r[i].locked
    BY <1>1 DEF Owns
  <2>1. PICK i \in 1..n : s[i].del = d /\ s[i].locked
    BY DEF CallsOK, Owns, n
  <2>2. i \in 1..(n + 1)
    BY <1>1
  <2>. QED  BY <2>1, <2>2, <1>1
<1>. QED  BY <1>1, <1>3, <1>4, <1>5, <1>6 DEF CallsOK, r

\* A thread outside makes its first call.
LEMMA FirstCall ==
  ASSUME NEW t, NEW m, NEW h, CallsOK(t, <<>>, m, h),
         NEW e \in Frame, ~e.locked, FrameOK(t, e, m, h)
  PROVE  CallsOK(t, <<e>>, m, h)
<1>. DEFINE r == <<e>>
<1>1. r \in Seq(Frame) /\ Len(r) = 1 /\ r[1] = e
  OBVIOUS
<1>2. \A d \in Delegates : h[d] # t
  BY DEF CallsOK, Owns
<1>. HIDE DEF r
<1>3. \A i \in 1..1 : i = 1
  OBVIOUS
<1>4. \A i \in 1..Len(r) : FrameOK(t, r[i], m, h)
  BY <1>1, <1>3
<1>5. Stacked(r) /\ LockedOnce(r)
  BY <1>1, <1>3 DEF Stacked, LockedOnce
<1>6. Owns(t, r, h)
  BY <1>2 DEF Owns
<1>. QED  BY <1>1, <1>4, <1>5, <1>6 DEF CallsOK, r

\* A step of another thread leaves a thread's calls alone, when it locks and
\* unlocks only mutexes of its own and changes no list they go through.
LEMMA OthersKept ==
  ASSUME NEW t, NEW s, NEW m, NEW m2, NEW h, NEW h2, CallsOK(t, s, m, h),
         \A d \in Delegates : h2[d] = t <=> h[d] = t,
         \A i \in 1..Len(s) : IsTraversing(s[i]) => m2[s[i].del] = m[s[i].del]
  PROVE  CallsOK(t, s, m2, h2)
<1>1. ASSUME NEW i \in 1..Len(s)
      PROVE  FrameOK(t, s[i], m2, h2)
  <2>1. FrameOK(t, s[i], m, h) /\ s[i].del \in Delegates
    <3>1. s[i] \in Frame
      BY DEF CallsOK
    <3>. QED  BY <3>1, FrameFields DEF CallsOK
  <2>2. s[i].locked => h2[s[i].del] = h[s[i].del]
    BY <2>1 DEF FrameOK
  <2>. QED  BY <2>1, <2>2, FrameKept
<1>2. Owns(t, s, h2)
  BY DEF CallsOK, Owns
<1>. QED  BY <1>1, <1>2 DEF CallsOK

\* operator+= and operator-=, inside their lock, find nobody going through the
\* list: a call would have the lock, of this thread or another, and a loop over
\* get_delegates() would be of this thread, under a callback of the delegate that
\* cannot be nested.
LEMMA ListUnused ==
  ASSUME IInv, NEW t \in Threads, stack[t] # <<>>,
         Last(stack[t]).stage = "inside", Last(stack[t]).op \in Updates,
         NEW u \in Threads, NEW i \in 1..Len(stack[u]), IsTraversing(stack[u][i])
  PROVE  stack[u][i].del # Last(stack[t]).del
<1>. DEFINE n == Len(stack[t])
            f == stack[u][i]
            g == stack[t][n]
<1>1. /\ n \in Nat /\ n > 0 /\ n \in 1..n /\ Last(stack[t]) = g
      /\ CallsOK(t, stack[t], map, holder) /\ CallsOK(u, stack[u], map, holder)
  <2>1. stack[t] \in Seq(Frame)
    BY DEF IInv, CallsOK
  <2>. QED  BY <2>1 DEF IInv, Last
<1>2. FrameOK(t, g, map, holder) /\ FrameOK(u, f, map, holder)
  BY <1>1 DEF CallsOK
<1>3. g.stage = "inside" /\ g.op \in Updates /\ IsTraversing(f)
  BY <1>1
<1>4. f.op \in Traversals /\ f.op \notin Updates /\ f.stage \in {"inside", "callback", "resumed"}
  <2>1. f \in Frame
    BY <1>1 DEF CallsOK
  <2>. QED  BY <2>1, <1>3 DEF IsTraversing, Frame, Stages, Traversals, Updates
<1>. HIDE DEF f, g
<1>5. g.locked /\ holder[g.del] = t
  BY <1>2, <1>3 DEF FrameOK, Updates
<1>. SUFFICES ASSUME f.del = g.del
              PROVE  FALSE
  BY <1>1 DEF f
<1>6. CASE f.locked
  <2>1. u = t
    BY <1>6, <1>5, <1>2 DEF FrameOK
  <2>2. i # n
    BY <2>1, <1>3, <1>4 DEF f, g
  <2>. QED  BY <2>1, <2>2, <1>1, <1>5, <1>6 DEF CallsOK, LockedOnce, f, g
<1>7. CASE ~f.locked
  <2>1. f.op = "peek"
    BY <1>7, <1>4, <1>2 DEF FrameOK
  <2>2. Users[f.del] = {u} /\ \A e \in Delegates : <<e, f.del>> \notin Nested
    BY <2>1, <1>2 DEF FrameOK, Allowed
  <2>3. u = t
    BY <2>2, <1>2 DEF FrameOK, Allowed
  <2>4. i # n
    BY <2>3, <1>3, <1>4 DEF f, g
  <2>5. n - 1 \in 1..n /\ n - 1 < n /\ (n - 1) + 1 = n
    BY <2>3, <2>4, <1>1
  <2>6. <<stack[t][n - 1].del, g.del>> \in Nested
    BY <2>5, <1>1 DEF CallsOK, Stacked, g
  <2>7. stack[t][n - 1].del \in Delegates
    <3>1. stack[t][n - 1] \in Frame
      BY <2>5, <1>1 DEF CallsOK
    <3>. QED  BY <3>1, FrameFields
  <2>. QED  BY <2>2, <2>6, <2>7
<1>. QED  BY <1>6, <1>7

----------------------------------------------------------------------------
(* The steps.                                                              *)

\* What is known of the innermost call of a thread.
LEMMA Innermost ==
  ASSUME IInv, NEW t \in Threads, Active(t)
  PROVE  /\ CallsOK(t, stack[t], map, holder) /\ stack[t] # <<>> /\ t # Free
         /\ Top(t) \in Frame /\ FrameOK(t, Top(t), map, holder)
         /\ stack[t] \in Seq(Frame)
         /\ holder \in [Delegates -> Threads \cup {Free}]
<1>1. CallsOK(t, stack[t], map, holder) /\ stack[t] # <<>> /\ stack[t] \in Seq(Frame)
  BY DEF IInv, Active, CallsOK
<1>2. Len(stack[t]) \in 1..Len(stack[t]) /\ Top(t) = stack[t][Len(stack[t])]
  BY <1>1 DEF Top, Last
<1>3. Top(t) \in Frame
  BY <1>1, <1>2
<1>. QED  BY <1>1, <1>2, <1>3, DelegateAssumption DEF CallsOK, IInv, TypeOK

\* A step of t that keeps the condition on its own calls keeps the invariant, if
\* it touches only mutexes of its own and lists that no other thread goes through.
LEMMA StepOfThread ==
  ASSUME IInv, NEW t \in Threads, NEW s, stack' = [stack EXCEPT ![t] = s],
         CallsOK(t, s, map', holder'),
         map' \in [Delegates -> Map],
         holder' \in [Delegates -> Threads \cup {Free}],
         calls' \in [Threads -> 0..MaxCalls],
         \A d \in Delegates : \/ holder'[d] = holder[d]
                              \/ holder[d] \in {t, Free} /\ holder'[d] \in {t, Free},
         \A u \in Threads \ {t} : \A i \in 1..Len(stack[u]) :
           IsTraversing(stack[u][i]) => map'[stack[u][i].del] = map[stack[u][i].del]
  PROVE  IInv'
<1>1. stack' \in [Threads -> Seq(Frame)]
  BY DEF IInv, TypeOK, CallsOK
<1>2. ASSUME NEW u \in Threads
      PROVE  CallsOK(u, stack'[u], map', holder')
  <2>1. CASE u = t
    BY <2>1 DEF IInv, TypeOK
  <2>2. CASE u # t
    <3>1. stack'[u] = stack[u] /\ CallsOK(u, stack[u], map, holder)
      BY <2>2 DEF IInv, TypeOK
    <3>2. \A d \in Delegates : holder'[d] = u <=> holder[d] = u
      BY <2>2, DelegateAssumption
    <3>. QED  BY <3>1, <3>2, <2>2, OthersKept
  <2>. QED  BY <2>1, <2>2
<1>. QED  BY <1>1, <1>2 DEF IInv, TypeOK

\* The innermost call moves on.
LEMMA MovesOn ==
  ASSUME IInv, NEW t \in Threads, Active(t), NEW g \in Frame, stack' = Replace(t, g),
         map' = map, calls' = calls, g.del = Top(t).del,
         \/ g.locked = Top(t).locked /\ holder' = holder
         \/ /\ ~Top(t).locked /\ g.locked
            /\ holder[g.del] = Free /\ holder' = [holder EXCEPT ![g.del] = t],
         FrameOK(t, g, map, holder')
  PROVE  IInv'
<1>1. CallsOK(t, Append(Front(stack[t]), g), map, holder')
  BY Innermost, InnermostMovesOn DEF Top
<1>2. stack' = [stack EXCEPT ![t] = Append(Front(stack[t]), g)]
  BY DEF Replace
<1>3. g.del \in Delegates
  BY FrameFields
<1>4. /\ holder' \in [Delegates -> Threads \cup {Free}]
      /\ \A d \in Delegates : \/ holder'[d] = holder[d]
                              \/ holder[d] \in {t, Free} /\ holder'[d] \in {t, Free}
  BY <1>3 DEF IInv, TypeOK
<1>5. map' \in [Delegates -> Map] /\ calls' \in [Threads -> 0..MaxCalls]
  BY DEF IInv, TypeOK
<1>. QED  BY <1>1, <1>2, <1>4, <1>5, StepOfThread

\* The lock the innermost call releases is its own.
LEMMA Unlocks ==
  ASSUME IInv, NEW t \in Threads, Active(t),
         holder' = IF Top(t).locked THEN [holder EXCEPT ![Top(t).del] = Free] ELSE holder
  PROVE  /\ holder' \in [Delegates -> Threads \cup {Free}]
         /\ \A d \in Delegates : \/ holder'[d] = holder[d]
                                 \/ holder[d] \in {t, Free} /\ holder'[d] \in {t, Free}
<1>1. Top(t).del \in Delegates /\ (Top(t).locked => holder[Top(t).del] = t)
  BY Innermost, FrameFields DEF FrameOK
<1>. QED  BY <1>1 DEF IInv, TypeOK

\* The innermost call ends.
LEMMA Ends ==
  ASSUME IInv, NEW t \in Threads, Active(t), Return(t), calls' = calls,
         map' \in [Delegates -> Map],
         \A u \in Threads : \A i \in 1..Len(stack[u]) :
           IsTraversing(stack[u][i]) => map'[stack[u][i].del] = map[stack[u][i].del]
  PROVE  IInv'
<1>1. Len(stack[t]) \in Nat
  BY Innermost
<1>2. \A i \in 1..(Len(stack[t]) - 1) :
        IsTraversing(stack[t][i]) => map'[stack[t][i].del] = map[stack[t][i].del]
  BY <1>1
<1>3. CallsOK(t, Front(stack[t]), map', holder')
  BY <1>2, Innermost, InnermostEnds DEF Return, Top
<1>4. calls' \in [Threads -> 0..MaxCalls]
  BY DEF IInv, TypeOK
<1>5. stack' = [stack EXCEPT ![t] = Front(stack[t])]
  BY DEF Return
<1>6. /\ holder' \in [Delegates -> Threads \cup {Free}]
      /\ \A d \in Delegates : \/ holder'[d] = holder[d]
                              \/ holder[d] \in {t, Free} /\ holder'[d] \in {t, Free}
  BY Unlocks DEF Return
<1>. QED  BY <1>3, <1>4, <1>5, <1>6, StepOfThread

\* Subscribing and unsubscribing change one list, and nobody goes through it.
LEMMA ListChanges ==
  ASSUME IInv, NEW t \in Threads, Active(t), Top(t).stage = "inside", Top(t).op \in Updates,
         NEW m, map' = [map EXCEPT ![Top(t).del] = m]
  PROVE  \A u \in Threads : \A i \in 1..Len(stack[u]) :
           IsTraversing(stack[u][i]) => map'[stack[u][i].del] = map[stack[u][i].del]
<1>. SUFFICES ASSUME NEW u \in Threads, NEW i \in 1..Len(stack[u]), IsTraversing(stack[u][i])
              PROVE  map'[stack[u][i].del] = map[stack[u][i].del]
  OBVIOUS
<1>1. stack[u][i].del # Top(t).del
  BY ListUnused DEF Active, Top
<1>2. stack[u][i].del \in Delegates
  <2>1. stack[u][i] \in Frame
    BY DEF IInv, TypeOK
  <2>. QED  BY <2>1, FrameFields
<1>. QED  BY <1>1, <1>2 DEF IInv, TypeOK

----------------------------------------------------------------------------
(* Every action keeps the invariant.                                       *)

LEMMA LockKeeps ==
  ASSUME IInv, NEW t \in Threads, Lock(t)
  PROVE  IInv'
<1>. DEFINE f == Top(t)
            todo == IF f.op \in Traversals THEN Registered(map[f.del]) ELSE {}
            g == [f EXCEPT !.stage = "inside", !.locked = TRUE, !.todo = todo]
<1>1. /\ Active(t) /\ f.stage = "enter" /\ f.op # "peek" /\ holder[f.del] = Free
      /\ holder' = [holder EXCEPT ![f.del] = t] /\ stack' = Replace(t, g)
      /\ map' = map /\ calls' = calls
  BY DEF Lock
<1>2. f \in Frame /\ FrameOK(t, f, map, holder) /\ holder \in [Delegates -> Threads \cup {Free}]
  BY <1>1, Innermost
<1>3. todo \in SUBSET Keys
  BY DEF Registered
<1>. HIDE DEF f
<1>4. /\ g \in Frame /\ g.op = f.op /\ g.del = f.del /\ g.cb = f.cb /\ g.locked
      /\ g.stage = "inside" /\ g.todo = todo /\ g.done = f.done
  BY <1>2, <1>3 DEF Frame, Stages
<1>5. ~f.locked /\ f.done = {} /\ Allowed(t, f.op, f.del, f.cb)
  BY <1>1, <1>2 DEF FrameOK
<1>6. holder'[g.del] = t
  BY <1>1, <1>2, <1>4, FrameFields
<1>. HIDE DEF g
<1>7. FrameOK(t, g, map, holder')
  BY <1>1, <1>4, <1>5, <1>6 DEF FrameOK, IsTraversing
<1>. QED  BY <1>1, <1>4, <1>5, <1>7, MovesOn DEF f

LEMMA LockOwnMutexKeeps ==
  ASSUME IInv, NEW t \in Threads, LockOwnMutex(t)
  PROVE  IInv'
<1>. DEFINE f == Top(t)
            g == [f EXCEPT !.stage = "throwing"]
<1>1. /\ Active(t) /\ stack' = Replace(t, g) /\ map' = map /\ holder' = holder /\ calls' = calls
  BY DEF LockOwnMutex
<1>2. f \in Frame /\ FrameOK(t, f, map, holder)
  BY <1>1, Innermost
<1>. HIDE DEF f
<1>3. /\ g \in Frame /\ g.op = f.op /\ g.del = f.del /\ g.cb = f.cb /\ g.locked = f.locked
      /\ g.stage = "throwing"
  BY <1>2 DEF Frame, Stages
<1>. HIDE DEF g
<1>4. FrameOK(t, g, map, holder')
  BY <1>1, <1>2, <1>3 DEF FrameOK, IsTraversing
<1>. QED  BY <1>1, <1>3, <1>4, MovesOn DEF f

LEMMA GetDelegatesKeeps ==
  ASSUME IInv, NEW t \in Threads, GetDelegates(t)
  PROVE  IInv'
<1>. DEFINE f == Top(t)
            g == [f EXCEPT !.stage = "inside", !.todo = Registered(map[f.del])]
<1>1. /\ Active(t) /\ f.stage = "enter" /\ f.op = "peek"
      /\ stack' = Replace(t, g) /\ map' = map /\ holder' = holder /\ calls' = calls
  BY DEF GetDelegates
<1>2. f \in Frame /\ FrameOK(t, f, map, holder)
  BY <1>1, Innermost
<1>3. Registered(map[f.del]) \in SUBSET Keys
  BY DEF Registered
<1>. HIDE DEF f
<1>4. /\ g \in Frame /\ g.op = f.op /\ g.del = f.del /\ g.cb = f.cb /\ g.locked = f.locked
      /\ g.stage = "inside" /\ g.todo = Registered(map[f.del]) /\ g.done = f.done
  BY <1>2, <1>3 DEF Frame, Stages
<1>. HIDE DEF g
<1>5. FrameOK(t, g, map, holder')
  BY <1>1, <1>2, <1>4 DEF FrameOK, IsTraversing
<1>. QED  BY <1>1, <1>4, <1>5, MovesOn DEF f

LEMMA InvokeKeeps ==
  ASSUME IInv, NEW t \in Threads, Invoke(t)
  PROVE  IInv'
<1>. DEFINE f == Top(t)
<1>1. PICK k \in f.todo : stack' = Replace(t, [f EXCEPT !.stage = "callback",
                                               !.todo = @ \ {k}, !.done = @ \cup {k}])
  BY DEF Invoke
<1>. DEFINE g == [f EXCEPT !.stage = "callback", !.todo = @ \ {k}, !.done = @ \cup {k}]
<1>2. /\ Active(t) /\ f.stage = "inside" /\ f.op \in Traversals
      /\ map' = map /\ holder' = holder /\ calls' = calls /\ stack' = Replace(t, g)
  BY <1>1 DEF Invoke
<1>3. f \in Frame /\ FrameOK(t, f, map, holder)
  BY <1>2, Innermost
<1>. HIDE DEF f
<1>4. k \in Keys
  BY <1>3 DEF Frame
<1>5. /\ g \in Frame /\ g.op = f.op /\ g.del = f.del /\ g.cb = f.cb /\ g.locked = f.locked
      /\ g.stage = "callback" /\ g.todo = f.todo \ {k} /\ g.done = f.done \cup {k}
  BY <1>3, <1>4 DEF Frame, Stages
<1>. HIDE DEF g
<1>6. /\ f.todo \cup f.done = Registered(map[f.del]) /\ f.todo \cap f.done = {}
  BY <1>2, <1>3 DEF FrameOK, IsTraversing
<1>7. /\ g.todo \cup g.done = Registered(map[g.del]) /\ g.todo \cap g.done = {}
  BY <1>5, <1>6
<1>8. FrameOK(t, g, map, holder')
  BY <1>2, <1>3, <1>5, <1>7 DEF FrameOK
<1>. QED  BY <1>2, <1>5, <1>8, MovesOn DEF f

\* A callback returns or throws.
LEMMA CallbackEndsKeeps ==
  ASSUME IInv, NEW t \in Threads, CallbackReturns(t) \/ CallbackThrows(t)
  PROVE  IInv'
<1>. DEFINE f == Top(t)
<1>1. PICK next \in {"inside", "throwing"} : stack' = Replace(t, [f EXCEPT !.stage = next])
  BY DEF CallbackReturns, CallbackThrows
<1>. DEFINE g == [f EXCEPT !.stage = next]
<1>2. /\ Active(t) /\ f.stage \in {"callback", "resumed"}
      /\ map' = map /\ holder' = holder /\ calls' = calls /\ stack' = Replace(t, g)
  BY <1>1 DEF CallbackReturns, CallbackThrows
<1>3. f \in Frame /\ FrameOK(t, f, map, holder)
  BY <1>2, Innermost
<1>. HIDE DEF f
<1>4. /\ g \in Frame /\ g.op = f.op /\ g.del = f.del /\ g.cb = f.cb /\ g.locked = f.locked
      /\ g.stage = next /\ g.todo = f.todo /\ g.done = f.done
  BY <1>3 DEF Frame, Stages
<1>. HIDE DEF g
<1>5. FrameOK(t, g, map, holder')
  BY <1>2, <1>3, <1>4 DEF FrameOK, IsTraversing
<1>. QED  BY <1>2, <1>4, <1>5, MovesOn DEF f

\* operator+= inserts the callback or keeps what its key has.
LEMMA SubscribeKeeps ==
  ASSUME IInv, NEW t \in Threads, Subscribe(t)
  PROVE  IInv'
<1>. DEFINE f == Top(t)
            k == Hash[f.cb]
            m == IF map[f.del][k] = Absent THEN [map[f.del] EXCEPT ![k] = f.cb] ELSE map[f.del]
<1>1. /\ Active(t) /\ f.stage = "inside" /\ f.op = "add" /\ Return(t) /\ calls' = calls
      /\ map' = IF map[f.del][k] = Absent THEN [map EXCEPT ![f.del][k] = f.cb] ELSE map
  BY DEF Subscribe
<1>2. f \in Frame /\ f.del \in Delegates /\ map \in [Delegates -> Map]
  BY <1>1, Innermost, FrameFields DEF IInv, TypeOK
<1>3. map' = [map EXCEPT ![f.del] = m]
  BY <1>1, <1>2
<1>4. f.cb \in Callbacks \cup {Absent}
  BY <1>2 DEF Frame
<1>5. m \in Map
  BY <1>2, <1>4 DEF Map
<1>6. map' \in [Delegates -> Map]
  BY <1>2, <1>3, <1>5
<1>7. \A u \in Threads : \A i \in 1..Len(stack[u]) :
        IsTraversing(stack[u][i]) => map'[stack[u][i].del] = map[stack[u][i].del]
  BY <1>1, <1>3, ListChanges DEF Updates
<1>. QED  BY <1>1, <1>6, <1>7, Ends

\* operator-= erases what the key of the callback has.
LEMMA UnsubscribeKeeps ==
  ASSUME IInv, NEW t \in Threads, Unsubscribe(t)
  PROVE  IInv'
<1>. DEFINE f == Top(t)
            m == [map[f.del] EXCEPT ![Hash[f.cb]] = Absent]
<1>1. /\ Active(t) /\ f.stage = "inside" /\ f.op = "remove" /\ Return(t) /\ calls' = calls
      /\ map' = [map EXCEPT ![f.del][Hash[f.cb]] = Absent]
  BY DEF Unsubscribe
<1>2. f.del \in Delegates /\ map \in [Delegates -> Map]
  BY <1>1, Innermost, FrameFields DEF IInv, TypeOK
<1>3. map' = [map EXCEPT ![f.del] = m]
  BY <1>1, <1>2
<1>4. map' \in [Delegates -> Map]
  BY <1>2, <1>3 DEF Map
<1>5. \A u \in Threads : \A i \in 1..Len(stack[u]) :
        IsTraversing(stack[u][i]) => map'[stack[u][i].del] = map[stack[u][i].del]
  BY <1>1, <1>3, ListChanges DEF Updates
<1>. QED  BY <1>1, <1>4, <1>5, Ends

\* operator bool, and a traversal at end(), only return.
LEMMA TestAndFinishKeep ==
  ASSUME IInv, NEW t \in Threads, Test(t) \/ Finish(t)
  PROVE  IInv'
<1>1. Active(t) /\ Return(t) /\ map' = map /\ calls' = calls
  BY DEF Test, Finish
<1>2. map' \in [Delegates -> Map]
  BY <1>1 DEF IInv, TypeOK
<1>. QED  BY <1>1, <1>2, Ends

\* An exception ends the innermost call and may go on in the one below.
LEMMA UnwindKeeps ==
  ASSUME IInv, NEW t \in Threads, Unwind(t)
  PROVE  IInv'
<1>. DEFINE s == Front(stack[t])
<1>1. PICK next \in {"resumed", "throwing"} :
        stack' = [stack EXCEPT ![t] =
          IF s = <<>> THEN <<>> ELSE Append(Front(s), [Last(s) EXCEPT !.stage = next])]
  BY DEF Unwind, IInv, TypeOK
<1>2. /\ Active(t) /\ map' = map /\ calls' = calls
      /\ holder' = IF Top(t).locked THEN [holder EXCEPT ![Top(t).del] = Free] ELSE holder
  BY DEF Unwind
<1>3. /\ holder' \in [Delegates -> Threads \cup {Free}]
      /\ \A d \in Delegates : \/ holder'[d] = holder[d]
                              \/ holder[d] \in {t, Free} /\ holder'[d] \in {t, Free}
  BY <1>2, Unlocks
<1>4. CallsOK(t, s, map, holder')
  BY <1>2, Innermost, InnermostEnds DEF Top
<1>5. t # Free /\ map' \in [Delegates -> Map] /\ calls' \in [Threads -> 0..MaxCalls]
  BY <1>2, Innermost DEF IInv, TypeOK
<1>6. CASE s = <<>>
  <2>1. stack' = [stack EXCEPT ![t] = s]
    BY <1>1, <1>6
  <2>. QED  BY <2>1, <1>2, <1>3, <1>4, <1>5, StepOfThread
<1>7. CASE s # <<>>
  <2>. DEFINE f == Last(s)
              g == [f EXCEPT !.stage = next]
              r == Append(Front(s), g)
  <2>1. s \in Seq(Frame) /\ Len(s) = Len(stack[t]) - 1 /\ Len(stack[t]) \in Nat
        /\ \A i \in 1..(Len(stack[t]) - 1) : s[i] = stack[t][i]
    BY <1>2, Innermost, FrontFacts
  <2>2. f = s[Len(s)] /\ Len(s) \in 1..Len(s) /\ Len(s) \in 1..Len(stack[t]) /\ Len(s) < Len(stack[t])
        /\ s[Len(s)] = stack[t][Len(s)]
    <3>. HIDE DEF s
    <3>1. Len(s) > 0
      BY <2>1, <1>7
    <3>. QED  BY <3>1, <2>1 DEF Last
  <2>3. f.stage = "resumed"
    BY <2>2, <1>2, Innermost DEF CallsOK, Stacked
  <2>4. f \in Frame /\ FrameOK(t, f, map, holder')
    <3>1. f \in Frame
      BY <2>1, <1>7, FrontFacts
    <3>. QED  BY <3>1, <2>2, <1>4 DEF CallsOK
  <2>. HIDE DEF f, s
  <2>5. /\ g \in Frame /\ g.op = f.op /\ g.del = f.del /\ g.cb = f.cb /\ g.locked = f.locked
        /\ g.stage = next /\ g.todo = f.todo /\ g.done = f.done
    BY <2>4 DEF Frame, Stages
  <2>. HIDE DEF g
  <2>6. FrameOK(t, g, map, holder')
    BY <2>3, <2>4, <2>5 DEF FrameOK, IsTraversing
  <2>7. CallsOK(t, r, map, holder')
    BY <1>3, <1>4, <1>5, <1>7, <2>5, <2>6, InnermostMovesOn DEF f
  <2>8. stack' = [stack EXCEPT ![t] = r]
    BY <1>1, <1>7 DEF g, f, s
  <2>. HIDE DEF r
  <2>. QED  BY <2>7, <2>8, <1>2, <1>3, <1>5, StepOfThread
<1>. QED  BY <1>6, <1>7

\* A thread makes a call from outside.
LEMMA CallKeeps ==
  ASSUME IInv, NEW t \in Threads, NEW op \in Ops, NEW d \in Delegates,
         NEW c \in Callbacks \cup {Absent}, Call(t, op, d, c)
  PROVE  IInv'
<1>. DEFINE e == Enter(op, d, c)
<1>1. /\ stack[t] = <<>> /\ calls[t] < MaxCalls /\ Allowed(t, op, d, c)
      /\ calls' = [calls EXCEPT ![t] = @ + 1] /\ stack' = [stack EXCEPT ![t] = <<e>>]
      /\ map' = map /\ holder' = holder
  BY DEF Call, Active
<1>2. e \in Frame /\ ~e.locked /\ FrameOK(t, e, map, holder)
  BY <1>1, EnterOK
<1>. HIDE DEF e
<1>3. CallsOK(t, <<e>>, map, holder)
  <2>1. CallsOK(t, <<>>, map, holder)
    BY <1>1 DEF IInv
  <2>. QED  BY <2>1, <1>2, FirstCall
<1>4. calls' \in [Threads -> 0..MaxCalls]
  BY <1>1, DelegateAssumption DEF IInv, TypeOK
<1>5. map' \in [Delegates -> Map] /\ holder' \in [Delegates -> Threads \cup {Free}]
  BY <1>1 DEF IInv, TypeOK
<1>. QED  BY <1>1, <1>3, <1>4, <1>5, StepOfThread

\* A callback makes a call.
LEMMA CallFromCallbackKeeps ==
  ASSUME IInv, NEW t \in Threads, NEW op \in Ops, NEW d \in Delegates,
         NEW c \in Callbacks \cup {Absent}, CallFromCallback(t, op, d, c)
  PROVE  IInv'
<1>. DEFINE e == Enter(op, d, c)
            f == Top(t)
            g == [f EXCEPT !.stage = "resumed"]
            s == Append(Front(stack[t]), g)
<1>1. /\ Active(t) /\ f.stage = "callback" /\ <<f.del, d>> \in Nested /\ Allowed(t, op, d, c)
      /\ map' = map /\ holder' = holder /\ calls' = calls
      /\ stack' = [stack EXCEPT ![t] = Front(@) \o <<[Last(@) EXCEPT !.stage = "resumed"], e>>]
  BY DEF CallFromCallback
<1>2. stack' = [stack EXCEPT ![t] = Front(stack[t]) \o <<g, e>>]
  BY <1>1 DEF Top
<1>3. /\ e \in Frame /\ ~e.locked /\ e.del = d /\ FrameOK(t, e, map, holder)
  BY <1>1, EnterOK
<1>4. /\ f \in Frame /\ FrameOK(t, f, map, holder) /\ CallsOK(t, stack[t], map, holder)
      /\ stack[t] \in Seq(Frame) /\ stack[t] # <<>> /\ t # Free
      /\ holder \in [Delegates -> Threads \cup {Free}] /\ f = Last(stack[t])
  BY <1>1, Innermost DEF Top
<1>. HIDE DEF e, f
<1>5. /\ g \in Frame /\ g.op = f.op /\ g.del = f.del /\ g.cb = f.cb /\ g.locked = f.locked
      /\ g.stage = "resumed" /\ g.todo = f.todo /\ g.done = f.done
  BY <1>4 DEF Frame, Stages
<1>. HIDE DEF g
<1>6. FrameOK(t, g, map, holder)
  BY <1>1, <1>4, <1>5 DEF FrameOK, IsTraversing
<1>7. CallsOK(t, s, map, holder)
  BY <1>4, <1>5, <1>6, InnermostMovesOn
<1>8. s # <<>> /\ Last(s) = g
  BY <1>4, <1>5, ReplacedFacts
<1>9. Front(stack[t]) \o <<g, e>> = Append(s, e)
  <2>1. Front(stack[t]) \in Seq(Frame)
    BY <1>4, FrontFacts
  <2>. QED  BY <2>1, <1>3, <1>5, PushedAsAppend
<1>. HIDE DEF s
<1>10. CallsOK(t, Append(s, e), map, holder)
  BY <1>1, <1>3, <1>5, <1>7, <1>8, InnermostCalls
<1>11. stack' = [stack EXCEPT ![t] = Append(s, e)]
  BY <1>2, <1>9
<1>12. /\ map' \in [Delegates -> Map] /\ holder' \in [Delegates -> Threads \cup {Free}]
       /\ calls' \in [Threads -> 0..MaxCalls]
  BY <1>1 DEF IInv, TypeOK
<1>. QED  BY <1>1, <1>10, <1>11, <1>12, StepOfThread

----------------------------------------------------------------------------
(* The invariant holds, and what it implies.                               *)

LEMMA InitInvariant == Init => IInv
<1>. SUFFICES ASSUME Init
              PROVE  IInv
  OBVIOUS
<1>1. TypeOK
  <2>1. map \in [Delegates -> Map] /\ holder \in [Delegates -> Threads \cup {Free}]
    BY DEF Init
  <2>2. stack \in [Threads -> Seq(Frame)]
    BY DEF Init
  <2>3. calls \in [Threads -> 0..MaxCalls]
    BY DelegateAssumption DEF Init
  <2>. QED  BY <2>1, <2>2, <2>3 DEF TypeOK
<1>2. ASSUME NEW t \in Threads
      PROVE  CallsOK(t, stack[t], map, holder)
  <2>1. stack[t] = <<>> /\ <<>> \in Seq(Frame) /\ Len(<<>>) = 0
    BY DEF Init
  <2>2. \A i \in 1..0 : FALSE
    OBVIOUS
  <2>3. Owns(t, <<>>, holder)
    BY DelegateAssumption DEF Init, Owns
  <2>. QED  BY <2>1, <2>2, <2>3 DEF CallsOK, Stacked, LockedOnce
<1>. QED  BY <1>1, <1>2 DEF IInv

LEMMA Invariance == IInv /\ [Next]_vars => IInv'
<1>. SUFFICES ASSUME IInv, [Next]_vars
              PROVE  IInv'
  OBVIOUS
<1>1. CASE UNCHANGED vars
  BY <1>1 DEF IInv, TypeOK, CallsOK, vars
<1>2. CASE Next
  <2>1. PICK t \in Threads : Begin(t) \/ Step(t)
    BY <1>2 DEF Next
  <2>2. CASE Begin(t)
    BY <2>2, CallKeeps, CallFromCallbackKeeps DEF Begin
  <2>3. CASE Step(t)
    BY <2>3, LockKeeps, LockOwnMutexKeeps, GetDelegatesKeeps, SubscribeKeeps, UnsubscribeKeeps,
       TestAndFinishKeep, InvokeKeeps, CallbackEndsKeeps, UnwindKeeps DEF Step
  <2>. QED  BY <2>1, <2>2, <2>3
<1>. QED  BY <1>1, <1>2

LEMMA Invariant == Spec => []IInv
BY InitInvariant, Invariance, PTL DEF Spec

\* Threads hold the mutexes, and the lists and stacks are lists and stacks.
THEOREM TypeCorrect == Spec => []TypeOK
<1>1. IInv => TypeOK
  BY DEF IInv
<1>. QED  BY <1>1, Invariant, PTL

\* The mutex of a delegate is locked exactly while one call is between its
\* lock_guard and its end, however calls are nested and exceptions unwind them.
THEOREM LocksAreCalls == Spec => []LockMatchesCalls
<1>1. IInv => LockMatchesCalls
  <2>. SUFFICES ASSUME IInv, NEW d \in Delegates
                PROVE  /\ holder[d] # Free => \E i \in In(holder[d]) :
                            At(holder[d], i).del = d /\ At(holder[d], i).locked
                       /\ \A t \in Threads : \A i \in In(t) : At(t, i).del = d /\ At(t, i).locked =>
                            /\ holder[d] = t
                            /\ \A j \in In(t) \ {i} : At(t, j).del = d => ~At(t, j).locked
    BY DEF LockMatchesCalls
  <2>1. \A t \in Threads : In(t) = 1..Len(stack[t]) /\ CallsOK(t, stack[t], map, holder)
    BY DEF IInv, TypeOK, In
  <2>2. ASSUME holder[d] # Free
        PROVE  \E i \in In(holder[d]) : At(holder[d], i).del = d /\ At(holder[d], i).locked
    <3>1. holder[d] \in Threads
      BY <2>2 DEF IInv, TypeOK
    <3>. QED  BY <3>1, <2>1 DEF CallsOK, Owns, At
  <2>3. ASSUME NEW t \in Threads, NEW i \in In(t), At(t, i).del = d, At(t, i).locked
        PROVE  /\ holder[d] = t
               /\ \A j \in In(t) \ {i} : At(t, j).del = d => ~At(t, j).locked
    <3>1. holder[d] = t
      BY <2>1, <2>3 DEF CallsOK, FrameOK, At
    <3>2. \A j \in In(t) \ {i} : At(t, j).del = d => ~At(t, j).locked
      BY <2>1, <2>3 DEF CallsOK, LockedOnce, At
    <3>. QED  BY <3>1, <3>2
  <2>. QED  BY <2>2, <2>3
<1>. QED  BY <1>1, Invariant, PTL

\* A traversal sees every subscriber once: what it has visited and what it has yet
\* to visit is what is subscribed, even while callbacks call other delegates.
THEOREM TraversalsAreStable == Spec => []TraversalIsStable
<1>1. IInv => TraversalIsStable
  <2>. SUFFICES ASSUME IInv, NEW t \in Threads, NEW i \in In(t), Traversing(t, i)
                PROVE  /\ At(t, i).todo \cup At(t, i).done = Registered(map[At(t, i).del])
                       /\ At(t, i).todo \cap At(t, i).done = {}
    BY DEF TraversalIsStable
  <2>1. i \in 1..Len(stack[t]) /\ CallsOK(t, stack[t], map, holder)
    BY DEF IInv, TypeOK, In
  <2>2. FrameOK(t, At(t, i), map, holder) /\ IsTraversing(At(t, i))
    BY <2>1 DEF CallsOK, At, Traversing, IsTraversing
  <2>. QED  BY <2>2 DEF FrameOK
<1>. QED  BY <1>1, Invariant, PTL

\* Only subscribing and unsubscribing change a list.
LEMMA WhoChangesLists ==
  ASSUME Next, map' # map
  PROVE  \E t \in Threads : Subscribe(t) \/ Unsubscribe(t)
<1>1. PICK t \in Threads : Begin(t) \/ Step(t)
  BY DEF Next
<1>2. ~Begin(t)
  BY DEF Begin, Call, CallFromCallback
<1>. QED  BY <1>1, <1>2 DEF Step, Lock, LockOwnMutex, GetDelegates, Test, Invoke, Finish,
                           CallbackReturns, CallbackThrows, Unwind

\* No thread changes a list that a call goes through: whoever has unsubscribed is
\* no longer running as a callback of that delegate.
THEOREM NobodyChangesTraversedList == Spec => NoChangeUnderTraversal
<1>1. ASSUME IInv, [Next]_vars, NEW d \in Delegates,
             NEW u \in Threads, NEW i \in In(u), Traversing(u, i), At(u, i).del = d
      PROVE  map'[d] = map[d]
  <2>1. i \in 1..Len(stack[u]) /\ IsTraversing(stack[u][i]) /\ stack[u][i].del = d
    BY <1>1 DEF IInv, TypeOK, In, Traversing, IsTraversing, At
  <2>2. CASE map' = map
    BY <2>2
  <2>3. CASE map' # map
    <3>1. PICK t \in Threads : Subscribe(t) \/ Unsubscribe(t)
      BY <2>3, <1>1, WhoChangesLists DEF vars
    <3>2. Active(t) /\ Top(t).stage = "inside" /\ Top(t).op \in Updates
      BY <3>1 DEF Subscribe, Unsubscribe, Updates
    <3>3. d # Top(t).del
      BY <1>1, <2>1, <3>2, ListUnused DEF Active, Top
    <3>. QED  BY <1>1, <3>1, <3>3 DEF Subscribe, Unsubscribe, IInv, TypeOK
  <2>. QED  BY <2>2, <2>3
<1>2. IInv /\ [Next]_vars => [\A d \in Delegates :
        (\E t \in Threads : \E i \in In(t) : Traversing(t, i) /\ At(t, i).del = d)
          => map'[d] = map[d]]_vars
  BY <1>1
<1>. QED  BY <1>2, Invariant, PTL DEF Spec, NoChangeUnderTraversal
=============================================================================
