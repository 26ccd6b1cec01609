------------------------ MODULE SqliteConnectionProofs ------------------------
(***************************************************************************)
(* What with_atomic's savepoints add up to, for any threads, requests and  *)
(* depth of nesting: SettledWritesDurable and UnitsWhole.  Frames only     *)
(* ever nest as the code's closures do, one thread is in a call or a unit  *)
(* at a time, and the savepoints on the stack are those of its units and   *)
(* of the units rolled back.                                               *)
(*                                                                         *)
(* What the statements of the calls add up to, for any partitions,         *)
(* snapshots and checkpoints: CrashTearsOne and FailuresLeaveNoTrace.      *)
(* Underway says, for every call, what its next statements may count on    *)
(* and what would be torn if they never came.                              *)
(***************************************************************************)
EXTENDS SqliteConnection, SequenceTheorems, FiniteSetTheorems, TLAPS

(* A sequence, whatever its elements are *)
IsSequence(s) == s \in Seq({s[i] : i \in DOMAIN s})

(* A frame has the fields that count and survive a change of the others. *)
IsFrame(x) == {"do", "depth", "before"} \subseteq DOMAIN x /\ x.depth \in Nat

(* A frame on top of another: a unit one deeper, or a call *)
Above(low, high) ==
    \/ high.do \in Units /\ high.depth = low.depth + 1
    \/ high.do = "call" /\ high.depth = low.depth

(* The frames of a thread: the request, the units it is in, one call at most *)
Nested(fs) ==
    /\ IsSequence(fs)
    /\ \A i \in 1..Len(fs) : IsFrame(fs[i])
    /\ fs # << >> => fs[1].do = "request" /\ fs[1].depth = 0
    /\ \A i \in 2..Len(fs) : Above(fs[i - 1], fs[i])
    /\ \A i \in 1..(Len(fs) - 1) : fs[i].do # "call"

IsThread(x) == {"frames", "failed"} \subseteq DOMAIN x /\ Nested(x.frames)

(* One thread at a time is in a call or a unit: the owner of the mutex. *)
MutexInv ==
    /\ owner \in Threads \cup {None}
    /\ DOMAIN thread = Threads
    /\ \A t \in Threads : IsThread(thread[t])
    /\ \A t \in Threads : (Len(thread[t].frames) > 1) <=> (owner = t)

(* How many units the owner of the mutex is in *)
OpenUnits == IF owner = None THEN 0 ELSE Top(owner).depth

(* What the code makes of its savepoints, those it never closes included:  *)
(* one for every unit open and one for every unit rolled back.             *)
SavepointsCounted == Len(stack) = OpenUnits + rolledBack

(* What has no savepoint under it is committed. *)
StackInv ==
    /\ IsSequence(stack)
    /\ rolledBack \in Nat
    /\ SavepointsCounted
    /\ stack = << >> => disk = view

(* The owner, in a unit, found in its outermost one what is on disk. *)
WholeInv ==
    rolledBack = 0 /\ owner # None /\ thread[owner].frames[2].do \in Units
    => disk = thread[owner].frames[2].before

IInv == MutexInv /\ StackInv /\ WholeInv

-----------------------------------------------------------------------------
(* Sequences *)

(* A sequence over any set is one. *)
LEMMA SomeSequence == ASSUME NEW S, NEW s \in Seq(S) PROVE IsSequence(s)
  <1>1. s \in [1..Len(s) -> S] /\ Len(s) \in Nat /\ DOMAIN s = 1..Len(s)
    OBVIOUS
  <1>2. s \in [1..Len(s) -> {s[i] : i \in DOMAIN s}]
    BY <1>1
  <1> QED
    BY <1>1, <1>2, SeqDef DEF IsSequence

(* The length and the domain of a sequence. *)
LEMMA SequenceParts ==
    ASSUME NEW s, IsSequence(s)
    PROVE  /\ Len(s) \in Nat
           /\ DOMAIN s = 1..Len(s)
           /\ (s = << >>) <=> (Len(s) = 0)
  BY DEF IsSequence

(* Append adds one element at the end. *)
LEMMA Pushed ==
    ASSUME NEW s, IsSequence(s), NEW x
    PROVE  /\ IsSequence(Append(s, x))
           /\ Len(Append(s, x)) = Len(s) + 1
           /\ \A i \in 1..Len(s) : Append(s, x)[i] = s[i]
           /\ Append(s, x)[Len(s) + 1] = x
  <1> DEFINE S == {s[i] : i \in DOMAIN s} \cup {x}
  <1>1. s \in Seq({s[i] : i \in DOMAIN s})
    BY DEF IsSequence
  <1>2. s \in [1..Len(s) -> {s[i] : i \in DOMAIN s}] /\ Len(s) \in Nat
    BY <1>1
  <1>3. s \in [1..Len(s) -> S]
    BY <1>2
  <1>4. s \in Seq(S) /\ x \in S
    BY <1>2, <1>3, SeqDef
  <1> HIDE DEF S
  <1>5. Append(s, x) \in Seq(S)
    BY <1>4
  <1>6. IsSequence(Append(s, x))
    BY <1>5, SomeSequence
  <1> QED
    BY <1>4, <1>6

(* SubSeq without the last element. *)
LEMMA Shortened ==
    ASSUME NEW s, IsSequence(s), Len(s) > 0
    PROVE  /\ IsSequence(SubSeq(s, 1, Len(s) - 1))
           /\ Len(SubSeq(s, 1, Len(s) - 1)) = Len(s) - 1
           /\ \A i \in 1..(Len(s) - 1) : SubSeq(s, 1, Len(s) - 1)[i] = s[i]
  <1> DEFINE S == {s[i] : i \in DOMAIN s}
  <1>1. s \in Seq(S) /\ Len(s) \in Nat
    BY DEF IsSequence
  <1> HIDE DEF S
  <1>2. \A i \in 1..(Len(s) - 1) : s[i] \in S
    BY <1>1
  <1>3. SubSeq(s, 1, Len(s) - 1) \in Seq(S)
    BY <1>1, <1>2
  <1>4. IsSequence(SubSeq(s, 1, Len(s) - 1))
    BY <1>3, SomeSequence
  <1>5. Len(SubSeq(s, 1, Len(s) - 1)) = Len(s) - 1
    <2>1. Len(SubSeq(s, 1, Len(s) - 1)) = IF 1 <= Len(s) - 1 THEN Len(s) - 1 - 1 + 1 ELSE 0
      BY <1>1, <1>2, SubSeqProperties
    <2>2. \A n \in Nat : n > 0 => (IF 1 <= n - 1 THEN n - 1 - 1 + 1 ELSE 0) = n - 1
      OBVIOUS
    <2> QED
      BY <1>1, <2>1, <2>2
  <1>6. \A i \in 1..(Len(s) - 1) : SubSeq(s, 1, Len(s) - 1)[i] = s[i]
    BY <1>1
  <1> QED
    BY <1>4, <1>5, <1>6

(* What the code's tests for an only and a last frame come to. *)
LEMMA Counts ==
    /\ \A k \in Nat : k > 0 => (k # 1 <=> k > 1) /\ (~(k > 1) <=> k = 1)
    /\ \A k \in Nat : k > 0 => k - 1 \in Nat /\ (k - 1 = 0 <=> k = 1)
    /\ \A k \in Nat : k > 1 => k - 1 > 0
    /\ \A k \in Nat : k + 1 > 0 /\ k + 1 # 0
  OBVIOUS

-----------------------------------------------------------------------------
(* Frames *)

(* The frames gs differ from fs in what is left to do. *)
SameShape(gs, fs) ==
    /\ Nested(gs)
    /\ Len(gs) = Len(fs)
    /\ \A i \in 1..Len(fs) : /\ gs[i].do = fs[i].do
                            /\ gs[i].depth = fs[i].depth
                            /\ gs[i].before = fs[i].before

(* Taking the first item of the top frame leaves the frames' shape. *)
LEMMA TakenKeeps ==
    ASSUME NEW fs, Nested(fs), fs # << >>, NEW r
    PROVE  SameShape([fs EXCEPT ![Len(fs)].rest = r], fs)
  <1> DEFINE n == Len(fs)
             gs == [fs EXCEPT ![n].rest = r]
             S == {gs[i] : i \in 1..n}
  <1>1. n \in Nat /\ n > 0 /\ DOMAIN fs = 1..n
    BY SequenceParts DEF Nested
  <1>2. fs = [i \in 1..n |-> fs[i]]
    BY DEF Nested, IsSequence
  <1>3. DOMAIN gs = 1..n
    BY <1>1
  <1>4. gs \in [1..n -> S]
    BY <1>1, <1>2
  <1>a. gs \in Seq(S)
    BY <1>1, <1>4, SeqDef
  <1>5. gs \in Seq(S) /\ Len(gs) = n
    <2>1. Len(gs) \in Nat /\ DOMAIN gs = 1..Len(gs)
      BY <1>a, LenProperties
    <2>2. 1..Len(gs) = 1..n
      BY <1>3, <2>1
    <2>3. Len(gs) \in 1..n /\ n \in 1..Len(gs)
      BY <1>1, <2>1, <2>2
    <2> QED
      BY <1>1, <1>a, <2>1, <2>3
  <1>6. \A i \in 1..n : i # n => gs[i] = fs[i]
    BY <1>1
  <1>7. gs[n] = [fs[n] EXCEPT !.rest = r]
    BY <1>1
  <1>8. \A i \in 1..n : IsFrame(fs[i])
    BY DEF Nested
  <1>9. DOMAIN gs[n] = DOMAIN fs[n]
    BY <1>7
  <1>10. /\ gs[n].do = fs[n].do
         /\ gs[n].depth = fs[n].depth
         /\ gs[n].before = fs[n].before
    BY <1>1, <1>7, <1>8 DEF IsFrame
  <1>11. IsFrame(gs[n])
    BY <1>1, <1>8, <1>9, <1>10 DEF IsFrame
  <1>12. \A i \in 1..n : /\ IsFrame(gs[i])
                         /\ gs[i].do = fs[i].do
                         /\ gs[i].depth = fs[i].depth
                         /\ gs[i].before = fs[i].before
    BY <1>6, <1>8, <1>10, <1>11
  <1>13. IsSequence(gs)
    BY <1>5, SomeSequence
  <1> HIDE DEF gs, S
  <1>14. n > 0 => gs[1].do = "request" /\ gs[1].depth = 0
    BY <1>1, <1>12, SequenceParts DEF Nested
  <1>15. \A i \in 2..n : Above(gs[i - 1], gs[i])
    <2> SUFFICES ASSUME NEW i \in 2..n PROVE Above(gs[i - 1], gs[i])
      OBVIOUS
    <2>1. i \in 1..n /\ i - 1 \in 1..n
      BY <1>1
    <2>2. Above(fs[i - 1], fs[i])
      BY DEF Nested
    <2> QED
      BY <2>1, <2>2, <1>12 DEF Above
  <1>16. \A i \in 1..(n - 1) : gs[i].do # "call"
    BY <1>1, <1>12 DEF Nested
  <1>17. Nested(gs)
    BY <1>1, <1>5, <1>12, <1>13, <1>14, <1>15, <1>16 DEF Nested
  <1>18. SameShape(gs, fs)
    BY <1>5, <1>12, <1>17 DEF SameShape
  <1> QED
    BY <1>18 DEF gs

(* Entering a call or a unit puts a frame on top. *)
LEMMA PushedKeeps ==
    ASSUME NEW fs, Nested(fs), fs # << >>, fs[Len(fs)].do # "call",
           NEW x, IsFrame(x), Above(fs[Len(fs)], x)
    PROVE  Nested(Append(fs, x))
  <1> DEFINE n == Len(fs)
             gs == Append(fs, x)
  <1>1. n \in Nat /\ n > 0 /\ IsSequence(fs)
    BY SequenceParts DEF Nested
  <1>2. /\ IsSequence(gs)
        /\ Len(gs) = n + 1
        /\ \A i \in 1..n : gs[i] = fs[i]
        /\ gs[n + 1] = x
    BY <1>1, Pushed
  <1> HIDE DEF gs
  <1>3. \A i \in 1..(n + 1) : IsFrame(gs[i])
    BY <1>1, <1>2 DEF Nested
  <1>4. gs[1].do = "request" /\ gs[1].depth = 0
    BY <1>1, <1>2 DEF Nested
  <1>5. \A i \in 2..(n + 1) : Above(gs[i - 1], gs[i])
    <2> SUFFICES ASSUME NEW i \in 2..(n + 1) PROVE Above(gs[i - 1], gs[i])
      OBVIOUS
    <2>1. CASE i = n + 1
      BY <1>1, <1>2, <2>1
    <2>2. CASE i \in 2..n
      <3>1. Above(fs[i - 1], fs[i])
        BY <2>2 DEF Nested
      <3> QED
        BY <1>1, <1>2, <2>2, <3>1
    <2> QED
      BY <1>1, <2>1, <2>2
  <1>6. \A i \in 1..n : gs[i].do # "call"
    BY <1>1, <1>2 DEF Nested
  <1> QED
    BY <1>1, <1>2, <1>3, <1>4, <1>5, <1>6 DEF Nested, gs

(* Leaving takes it away. *)
LEMMA PoppedKeeps ==
    ASSUME NEW fs, Nested(fs), Len(fs) > 1
    PROVE  Nested(SubSeq(fs, 1, Len(fs) - 1))
  <1> DEFINE n == Len(fs)
             gs == SubSeq(fs, 1, n - 1)
  <1>1. n \in Nat /\ n > 1 /\ IsSequence(fs)
    BY SequenceParts DEF Nested
  <1>2. /\ IsSequence(gs)
        /\ Len(gs) = n - 1
        /\ \A i \in 1..(n - 1) : gs[i] = fs[i]
    BY <1>1, Shortened
  <1> HIDE DEF gs
  <1>3. \A i \in 1..(n - 1) : IsFrame(gs[i])
    BY <1>1, <1>2 DEF Nested
  <1>4. gs[1].do = "request" /\ gs[1].depth = 0
    BY <1>1, <1>2, SequenceParts DEF Nested
  <1>5. \A i \in 2..(n - 1) : Above(gs[i - 1], gs[i])
    BY <1>1, <1>2 DEF Nested
  <1>6. \A i \in 1..(n - 2) : gs[i].do # "call"
    BY <1>1, <1>2 DEF Nested
  <1> QED
    BY <1>1, <1>2, <1>3, <1>4, <1>5, <1>6 DEF Nested, gs

(* The request alone is in no unit, and a unit has a frame under it. *)
LEMMA FrameDepths ==
    ASSUME NEW fs, Nested(fs), fs # << >>
    PROVE  /\ Len(fs) \in Nat /\ Len(fs) > 0
           /\ fs[Len(fs)].depth \in Nat
           /\ Len(fs) = 1 => fs[Len(fs)].depth = 0 /\ fs[Len(fs)].do = "request"
           /\ Len(fs) > 1 => Above(fs[Len(fs) - 1], fs[Len(fs)])
           /\ Len(fs) > 1 => fs[2].do \in Units \/ (Len(fs) = 2 /\ fs[2].depth = 0)
  <1> DEFINE n == Len(fs)
  <1>1. n \in Nat /\ n > 0
    BY SequenceParts DEF Nested
  <1>2. IsFrame(fs[n]) /\ fs[1].do = "request" /\ fs[1].depth = 0
    BY <1>1 DEF Nested
  <1>3. \A i \in 2..n : Above(fs[i - 1], fs[i])
    BY DEF Nested
  <1>4. n > 1 => Above(fs[n - 1], fs[n]) /\ Above(fs[1], fs[2])
    BY <1>1, <1>3
  <1>5. ASSUME n > 1, fs[2].do = "call" PROVE n = 2 /\ fs[2].depth = 0
    <2>1. \A i \in 1..(n - 1) : fs[i].do # "call"
      BY DEF Nested
    <2>2. ~(2 \in 1..(n - 1))
      BY <1>5, <2>1
    <2>5. \A k \in Nat : k > 1 /\ ~(2 \in 1..(k - 1)) => k = 2
      OBVIOUS
    <2>4. n = 2
      BY <1>1, <1>5, <2>2, <2>5
    <2>3. "call" \notin Units
      BY DEF Units
    <2> QED
      BY <1>2, <1>4, <1>5, <2>4, <2>3 DEF Above
  <1> QED
    BY <1>1, <1>2, <1>4, <1>5 DEF IsFrame, Above

-----------------------------------------------------------------------------
(* Threads *)

(* A step of thread t left it with the frames fs. *)
LeftWith(t, fs) ==
    /\ DOMAIN thread' = Threads
    /\ {"frames", "failed"} \subseteq DOMAIN thread'[t]
    /\ thread'[t].frames = fs
    /\ \A u \in Threads \ {t} : thread'[u] = thread[u]

(* A step of one thread that nests keeps one owner, and changes the number *)
(* of open units by what it did itself.                                    *)
LEMMA OneOwner ==
    ASSUME MutexInv, NEW t \in Threads, NEW fs, Nested(fs), LeftWith(t, fs),
           Len(fs) > 1 => owner \in {None, t},
           owner' = IF Len(fs) > 1 THEN t ELSE IF owner = t THEN None ELSE owner
    PROVE  /\ MutexInv'
           /\ OpenUnits' = IF Len(fs) > 1 THEN fs[Len(fs)].depth
                           ELSE IF owner = t THEN 0 ELSE OpenUnits
  <1>1. None \notin Threads
    BY NoneAssumption
  <1>2. owner' \in Threads \cup {None}
    BY DEF MutexInv
  <1>3. \A u \in Threads : IsThread(thread'[u])
    BY DEF MutexInv, LeftWith, IsThread
  <1>4. \A u \in Threads : (Len(thread'[u].frames) > 1) <=> (owner' = u)
    <2> SUFFICES ASSUME NEW u \in Threads
                 PROVE  (Len(thread'[u].frames) > 1) <=> (owner' = u)
      OBVIOUS
    <2>1. CASE u = t
      BY <1>1, <2>1 DEF LeftWith, MutexInv
    <2>2. CASE u # t
      <3>1. thread'[u].frames = thread[u].frames
        BY <2>2 DEF LeftWith
      <3>2. (Len(thread[u].frames) > 1) <=> (owner = u)
        BY DEF MutexInv
      <3> QED
        BY <1>1, <2>2, <3>1, <3>2
    <2> QED
      BY <2>1, <2>2
  <1>5. MutexInv'
    BY <1>2, <1>3, <1>4 DEF MutexInv, IsThread, Nested, IsSequence, LeftWith
  <1>6. CASE Len(fs) > 1
    BY <1>1, <1>5, <1>6 DEF OpenUnits, Top, LeftWith
  <1>7. CASE ~(Len(fs) > 1) /\ owner = t
    BY <1>5, <1>7 DEF OpenUnits
  <1>8. CASE ~(Len(fs) > 1) /\ owner # t
    <2>1. owner' = owner
      BY <1>8
    <2>2. owner # None => thread'[owner] = thread[owner]
      BY <1>8 DEF MutexInv, LeftWith
    <2> QED
      BY <1>5, <1>8, <2>1, <2>2 DEF OpenUnits, Top
  <1> QED
    BY <1>5, <1>6, <1>7, <1>8

(* The frames of a thread that has some. *)
LEMMA BusyFrames ==
    ASSUME MutexInv, NEW t \in Threads, Busy(t)
    PROVE  /\ Nested(thread[t].frames)
           /\ Len(thread[t].frames) \in Nat /\ Len(thread[t].frames) > 0
           /\ Top(t).depth \in Nat
           /\ Len(thread[t].frames) > 1 => owner = t
           /\ Len(thread[t].frames) = 1 => Top(t).depth = 0 /\ Top(t).do = "request" /\ owner # t
  <1>1. Nested(thread[t].frames) /\ thread[t].frames # << >>
    BY DEF MutexInv, IsThread, Busy
  <1>2. (Len(thread[t].frames) > 1) <=> (owner = t)
    BY DEF MutexInv
  <1> QED
    BY <1>1, <1>2, FrameDepths DEF Top

(* Setting a field of one thread. *)
LEMMA OneThreadChanged ==
    ASSUME MutexInv, NEW t \in Threads, NEW fs,
           \/ thread' = [thread EXCEPT ![t].frames = fs]
           \/ \E b : thread' = [thread EXCEPT ![t].frames = fs, ![t].failed = b]
           \/ fs = thread[t].frames /\ \E b : thread' = [thread EXCEPT ![t].failed = b]
    PROVE  LeftWith(t, fs)
  <1>1. DOMAIN thread = Threads /\ {"frames", "failed"} \subseteq DOMAIN thread[t]
    BY DEF MutexInv, IsThread
  <1>2. CASE thread' = [thread EXCEPT ![t].frames = fs]
    BY <1>1, <1>2 DEF LeftWith
  <1>3. CASE \E b : thread' = [thread EXCEPT ![t].frames = fs, ![t].failed = b]
    BY <1>1, <1>3 DEF LeftWith
  <1>4. CASE fs = thread[t].frames /\ \E b : thread' = [thread EXCEPT ![t].failed = b]
    BY <1>1, <1>4 DEF LeftWith
  <1> QED
    BY <1>2, <1>3, <1>4
-----------------------------------------------------------------------------
(* Shapes *)

(* The frames hs are fs with x on top. *)
OnTop(hs, fs, x) ==
    /\ Nested(hs)
    /\ Len(hs) = Len(fs) + 1
    /\ hs[Len(hs)] = x
    /\ Len(fs) = 1 => hs[2] = x
    /\ Len(fs) > 1 => hs[2].do = fs[2].do /\ hs[2].before = fs[2].before

(* Taking an item and entering what it is. *)
LEMMA EnteredShape ==
    ASSUME NEW fs, Nested(fs), fs # << >>, fs[Len(fs)].do # "call",
           NEW r, NEW x, IsFrame(x), Above(fs[Len(fs)], x)
    PROVE  OnTop(Append([fs EXCEPT ![Len(fs)].rest = r], x), fs, x)
  <1> DEFINE gs == [fs EXCEPT ![Len(fs)].rest = r]
             hs == Append(gs, x)
  <1>1. PICK n \in Nat : n = Len(fs) /\ n > 0
    BY SequenceParts DEF Nested
  <1>2. /\ Nested(gs)
        /\ Len(gs) = n
        /\ \A i \in 1..n : /\ gs[i].do = fs[i].do
                           /\ gs[i].depth = fs[i].depth
                           /\ gs[i].before = fs[i].before
    <2>1. SameShape(gs, fs)
      BY TakenKeeps
    <2> HIDE DEF gs
    <2> QED
      BY <1>1, <2>1 DEF SameShape
  <1> HIDE DEF gs
  <1>3. n \in 1..n
    BY <1>1
  <1>4. gs[n].do = fs[n].do /\ gs[n].depth = fs[n].depth
    BY <1>2, <1>3
  <1>5. gs[n].do # "call" /\ Above(gs[n], x)
    BY <1>1, <1>4 DEF Above
  <1>6. IsSequence(gs) /\ gs # << >>
    BY <1>1, <1>2, SequenceParts DEF Nested
  <1>7. Nested(hs)
    BY <1>2, <1>5, <1>6, PushedKeeps
  <1>8. Len(hs) = n + 1 /\ hs[n + 1] = x /\ \A i \in 1..n : hs[i] = gs[i]
    BY <1>2, <1>6, Pushed
  <1> HIDE DEF hs
  <1>9. n > 1 => 2 \in 1..n
    OBVIOUS
  <1>10. n > 1 => hs[2].do = fs[2].do /\ hs[2].before = fs[2].before
    BY <1>2, <1>8, <1>9
  <1>11. n = 1 => hs[2] = x
    BY <1>8
  <1>12. OnTop(hs, fs, x)
    BY <1>1, <1>7, <1>8, <1>10, <1>11 DEF OnTop
  <1> QED
    BY <1>12 DEF hs, gs

(* The frames gs are fs without the top one. *)
WithoutTop(gs, fs) ==
    /\ Nested(gs)
    /\ Len(gs) = Len(fs) - 1
    /\ gs[Len(gs)].depth \in Nat
    /\ fs[Len(fs)].do = "call" => fs[Len(fs)].depth = gs[Len(gs)].depth
    /\ fs[Len(fs)].do \in Units => fs[Len(fs)].depth = gs[Len(gs)].depth + 1
    /\ Len(gs) > 1 => gs[2] = fs[2]
    /\ Len(gs) = 1 => gs[Len(gs)].depth = 0
    /\ Len(gs) > 1 => gs[Len(gs)].depth > 0

(* A frame under another is the request or a unit. *)
LEMMA UnderTop ==
    ASSUME NEW fs, Nested(fs), NEW n \in Nat, n = Len(fs), n > 1
    PROVE  /\ Above(fs[n - 1], fs[n])
           /\ fs[n - 1].depth \in Nat
           /\ n = 2 => fs[n - 1].depth = 0
           /\ n > 2 => fs[n - 1].depth > 0
  <1>1. /\ \A i \in 1..n : IsFrame(fs[i])
        /\ \A i \in 2..n : Above(fs[i - 1], fs[i])
        /\ \A i \in 1..(n - 1) : fs[i].do # "call"
    BY DEF Nested
  <1>2. fs[1].depth = 0
    <2>1. fs # << >>
      BY SequenceParts DEF Nested
    <2> QED
      BY <2>1 DEF Nested
  <1>3. n \in 2..n /\ n - 1 \in 1..n /\ n - 1 \in 1..(n - 1)
    OBVIOUS
  <1>4. Above(fs[n - 1], fs[n]) /\ IsFrame(fs[n - 1]) /\ fs[n - 1].do # "call"
    BY <1>1, <1>3
  <1>5. ASSUME n > 2 PROVE fs[n - 1].depth > 0
    <2>1. n - 1 \in 2..n /\ (n - 1) - 1 \in 1..n
      BY <1>5
    <2>2. Above(fs[(n - 1) - 1], fs[n - 1]) /\ IsFrame(fs[(n - 1) - 1])
      BY <1>1, <2>1
    <2>3. fs[(n - 1) - 1].depth \in Nat /\ fs[n - 1].depth = fs[(n - 1) - 1].depth + 1
      BY <1>4, <2>2 DEF Above, IsFrame
    <2>4. \A k \in Nat : k + 1 > 0
      OBVIOUS
    <2> QED
      BY <2>3, <2>4
  <1>6. n = 2 => fs[n - 1].depth = 0
    BY <1>2
  <1> QED
    BY <1>4, <1>5, <1>6 DEF IsFrame

LEMMA LeftShape ==
    ASSUME NEW fs, Nested(fs), Len(fs) > 1
    PROVE  WithoutTop(SubSeq(fs, 1, Len(fs) - 1), fs)
  <1> DEFINE gs == SubSeq(fs, 1, Len(fs) - 1)
  <1>1. PICK n \in Nat : n = Len(fs) /\ n > 1
    BY SequenceParts DEF Nested
  <1>2. Nested(gs)
    BY PoppedKeeps
  <1>3. Len(gs) = n - 1 /\ \A i \in 1..(n - 1) : gs[i] = fs[i]
    BY <1>1, Shortened DEF Nested
  <1> HIDE DEF gs
  <1>4. gs[n - 1] = fs[n - 1] /\ (n > 2 => gs[2] = fs[2])
    BY <1>1, <1>3
  <1>5. /\ Above(fs[n - 1], fs[n])
        /\ fs[n - 1].depth \in Nat
        /\ n = 2 => fs[n - 1].depth = 0
        /\ n > 2 => fs[n - 1].depth > 0
    BY <1>1, UnderTop
  <1>6. "call" \notin Units
    BY DEF Units
  <1>7. (n - 1 = 1 <=> n = 2) /\ (n - 1 > 1 <=> n > 2)
    BY <1>1
  <1>8. /\ fs[n].do = "call" => fs[n].depth = gs[n - 1].depth
        /\ fs[n].do \in Units => fs[n].depth = gs[n - 1].depth + 1
    BY <1>4, <1>5, <1>6 DEF Above
  <1>9. WithoutTop(gs, fs)
    BY <1>1, <1>2, <1>3, <1>4, <1>5, <1>7, <1>8 DEF WithoutTop
  <1> QED
    BY <1>9 DEF gs

(* A thread in a unit has an outermost one, and the other way round. *)
LEMMA InUnit ==
    ASSUME NEW fs, Nested(fs), fs # << >>
    PROVE  (fs[Len(fs)].depth > 0) <=> (Len(fs) > 1 /\ fs[2].do \in Units)
  <1>1. PICK n \in Nat : n = Len(fs) /\ n > 0
    BY SequenceParts DEF Nested
  <1>2. "call" \notin Units
    BY DEF Units
  <1>3. fs[1].depth = 0
    BY DEF Nested
  <1>4. ASSUME n = 2 PROVE (fs[n].depth > 0) <=> (fs[2].do \in Units)
    <2>1. Above(fs[1], fs[2])
      BY <1>1, <1>4 DEF Nested
    <2> QED
      BY <1>2, <1>3, <1>4, <2>1 DEF Above
  <1>5. ASSUME n > 2 PROVE fs[n].depth > 0 /\ fs[2].do \in Units
    <2>1. Above(fs[n - 1], fs[n]) /\ fs[n - 1].depth \in Nat /\ fs[n - 1].depth > 0
      BY <1>1, <1>5, UnderTop
    <2>2. fs[n].depth > 0
      BY <2>1 DEF Above
    <2>3. 2 \in 2..n /\ 2 \in 1..(n - 1)
      BY <1>5
    <2>4. Above(fs[2 - 1], fs[2]) /\ fs[2].do # "call"
      BY <1>1, <2>3 DEF Nested
    <2> QED
      BY <2>2, <2>4 DEF Above
  <1> QED
    BY <1>1, <1>3, <1>4, <1>5

-----------------------------------------------------------------------------
(* Entering and leaving *)

(* Thread t has one frame more, and as many units open as the top says. *)
LEMMA EnterKeeps ==
    ASSUME MutexInv, NEW t \in Threads, Ready(t, {"request"} \cup Units), MayLock(t),
           NEW x, IsFrame(x), Above(Top(t), x),
           owner' = t, thread' = [thread EXCEPT ![t].frames = Append(Taken(t), x)]
    PROVE  /\ MutexInv'
           /\ OpenUnits = Top(t).depth /\ OpenUnits' = x.depth
           /\ LeftWith(t, Append(Taken(t), x))
           /\ OnTop(Append(Taken(t), x), thread[t].frames, x)
  <1> DEFINE hs == Append(Taken(t), x)
  <1>1. PICK fs : fs = thread[t].frames
    OBVIOUS
  <1>2. /\ Nested(fs) /\ fs # << >>
        /\ Len(fs) \in Nat /\ Len(fs) > 0
        /\ Len(fs) > 1 => owner = t
        /\ Len(fs) = 1 => Top(t).depth = 0 /\ owner # t
        /\ Top(t) = fs[Len(fs)]
    BY <1>1, BusyFrames DEF Ready, Busy, Top
  <1>3. fs[Len(fs)].do # "call"
    BY <1>2 DEF Ready, Units
  <1>4. Taken(t) = [fs EXCEPT ![Len(fs)].rest = Tail(@)]
    BY <1>1 DEF Taken
  <1>5. Taken(t) = [fs EXCEPT ![Len(fs)].rest = Tail(fs[Len(fs)].rest)]
    BY <1>4
  <1>6. OnTop(hs, fs, x)
    BY <1>2, <1>3, <1>5, EnteredShape
  <1>7. LeftWith(t, hs)
    BY OneThreadChanged
  <1> HIDE DEF hs
  <1>8. Nested(hs) /\ Len(hs) > 1 /\ hs[Len(hs)] = x
    BY <1>2, <1>6 DEF OnTop
  <1>9. owner \in {None, t}
    BY DEF MayLock
  <1>10. MutexInv' /\ OpenUnits' = hs[Len(hs)].depth
    BY <1>7, <1>8, <1>9, OneOwner
  <1>11. OpenUnits = Top(t).depth
    <2>1. CASE owner = t
      BY <2>1, NoneAssumption DEF OpenUnits
    <2>2. CASE owner # t
      BY <1>2, <1>9, <2>2 DEF OpenUnits
    <2> QED
      BY <2>1, <2>2
  <1> QED
    BY <1>1, <1>6, <1>7, <1>8, <1>10, <1>11 DEF hs

(* Thread t has one frame less. *)
LEMMA LeaveKeeps ==
    ASSUME MutexInv, NEW t \in Threads, Busy(t), Top(t).do # "request",
           owner' = Unlocked(t), Popped(t)
    PROVE  /\ MutexInv'
           /\ owner = t
           /\ OpenUnits = Top(t).depth
           /\ OpenUnits' = Under(t)[Len(Under(t))].depth
           /\ LeftWith(t, Under(t))
           /\ WithoutTop(Under(t), thread[t].frames)
  <1>1. PICK fs : fs = thread[t].frames
    OBVIOUS
  <1>2. Nested(fs) /\ Len(fs) \in Nat /\ Len(fs) > 1 /\ owner = t
    <2>1. /\ Nested(fs) /\ Len(fs) \in Nat /\ Len(fs) > 0
          /\ Len(fs) > 1 => owner = t
          /\ Len(fs) = 1 => Top(t).do = "request"
      BY <1>1, BusyFrames
    <2>2. Len(fs) > 1
      BY <2>1, Counts
    <2> QED
      BY <2>1, <2>2
  <1>3. WithoutTop(Under(t), fs)
    BY <1>1, <1>2, LeftShape DEF Under
  <1>4. LeftWith(t, Under(t))
    BY OneThreadChanged DEF Popped
  <1>5. PICK gs : gs = Under(t)
    OBVIOUS
  <1>6. /\ Nested(gs) /\ Len(gs) \in Nat /\ Len(gs) > 0
        /\ Len(gs) = 1 => gs[Len(gs)].depth = 0
    BY <1>2, <1>3, <1>5 DEF WithoutTop
  <1>7. owner' = IF Len(gs) > 1 THEN t ELSE IF owner = t THEN None ELSE owner
    <2>1. owner' = IF Len(gs) = 1 THEN None ELSE t
      BY <1>5 DEF Unlocked
    <2>2. CASE Len(gs) = 1
      BY <1>2, <2>1, <2>2
    <2>3. CASE Len(gs) # 1
      <3>1. Len(gs) > 1
        BY <1>6, <2>3, Counts
      <3> QED
        BY <2>1, <2>3, <3>1
    <2> QED
      BY <2>2, <2>3
  <1>8. MutexInv' /\ OpenUnits' = IF Len(gs) > 1 THEN gs[Len(gs)].depth
                                  ELSE IF owner = t THEN 0 ELSE OpenUnits
    BY <1>2, <1>4, <1>5, <1>6, <1>7, OneOwner
  <1>9. OpenUnits' = gs[Len(gs)].depth
    <2>1. CASE Len(gs) > 1
      BY <1>8, <2>1
    <2>2. CASE ~(Len(gs) > 1)
      <3>1. Len(gs) = 1
        BY <1>6, <2>2, Counts
      <3>2. gs[Len(gs)].depth = 0
        BY <1>6, <3>1
      <3> QED
        BY <1>2, <1>8, <2>2, <3>2
    <2> QED
      BY <2>1, <2>2
  <1>10. OpenUnits = Top(t).depth
    BY <1>2, NoneAssumption DEF OpenUnits
  <1> QED
    BY <1>1, <1>2, <1>3, <1>4, <1>5, <1>8, <1>9, <1>10

(* A step that changes what is left of the owner's frames, or an error. *)
LEMMA OwnerKeeps ==
    ASSUME MutexInv, NEW t \in Threads, Busy(t), Top(t).do # "request",
           NEW gs, SameShape(gs, thread[t].frames), LeftWith(t, gs), owner' = owner
    PROVE  /\ MutexInv'
           /\ owner = t
           /\ OpenUnits = Top(t).depth /\ OpenUnits' = OpenUnits
           /\ gs[2].do = thread[t].frames[2].do
           /\ gs[2].before = thread[t].frames[2].before
           /\ (Top(t).depth > 0) <=> (thread[t].frames[2].do \in Units)
  <1>1. PICK fs : fs = thread[t].frames
    OBVIOUS
  <1>2. PICK n \in Nat : n = Len(fs) /\ n > 0
    BY <1>1, BusyFrames
  <1>3. /\ Nested(fs)
        /\ n > 1 => owner = t
        /\ n = 1 => Top(t).do = "request"
    BY <1>1, <1>2, BusyFrames
  <1>4. n > 1 /\ owner = t
    BY <1>2, <1>3, Counts
  <1>5. /\ Nested(gs) /\ Len(gs) = n
        /\ \A i \in 1..n : /\ gs[i].do = fs[i].do
                           /\ gs[i].depth = fs[i].depth
                           /\ gs[i].before = fs[i].before
    BY <1>1, <1>2 DEF SameShape
  <1>6. 2 \in 1..n /\ n \in 1..n
    BY <1>2, <1>4
  <1>7. MutexInv' /\ OpenUnits' = gs[n].depth
    <2>1. Len(gs) > 1
      BY <1>4, <1>5
    <2>2. owner' = IF Len(gs) > 1 THEN t ELSE IF owner = t THEN None ELSE owner
      BY <1>4, <2>1
    <2>3. MutexInv' /\ OpenUnits' = IF Len(gs) > 1 THEN gs[Len(gs)].depth
                                    ELSE IF owner = t THEN 0 ELSE OpenUnits
      BY <1>4, <1>5, <2>2, OneOwner
    <2> QED
      BY <1>5, <2>1, <2>3
  <1>8. Top(t) = fs[n]
    BY <1>1, <1>2 DEF Top
  <1>9. OpenUnits = Top(t).depth
    BY <1>4, NoneAssumption DEF OpenUnits
  <1>10. (fs[n].depth > 0) <=> (fs[2].do \in Units)
    <2>1. fs # << >>
      BY <1>1 DEF Busy
    <2> QED
      BY <1>2, <1>3, <1>4, <2>1, InUnit
  <1> QED
    BY <1>1, <1>4, <1>5, <1>6, <1>7, <1>8, <1>9, <1>10

(* A thread that is in no call and no unit starts or ends a request. *)
LEMMA OutsiderKeeps ==
    ASSUME IInv, NEW t \in Threads, owner # t, NEW fs, Nested(fs), ~(Len(fs) > 1),
           LeftWith(t, fs), UNCHANGED <<disk, view, stack, owner, rolledBack>>
    PROVE  IInv'
  <1>1. MutexInv' /\ OpenUnits' = OpenUnits
    BY OneOwner DEF IInv
  <1>2. StackInv'
    BY <1>1 DEF IInv, StackInv, SavepointsCounted
  <1>3. owner # None => thread'[owner] = thread[owner]
    BY DEF LeftWith, IInv, MutexInv
  <1>4. WholeInv'
    BY <1>3 DEF IInv, WholeInv
  <1> QED
    BY <1>1, <1>2, <1>4 DEF IInv

-----------------------------------------------------------------------------
(* The actions *)

LEMMA NoFrames == Nested(<< >>) /\ Len(<< >>) = 0
  <1>1. << >> \in Seq({}) /\ Len(<< >>) = 0
    OBVIOUS
  <1>2. IsSequence(<< >>)
    BY <1>1, SomeSequence
  <1> QED
    BY <1>1, <1>2 DEF Nested

LEMMA InitInv == Init => IInv
  <1> SUFFICES ASSUME Init PROVE IInv
    OBVIOUS
  <1>1. \A t \in Threads : thread[t] = Idle
    BY DEF Init
  <1>2. MutexInv
    BY <1>1, NoFrames, NoneAssumption DEF Init, MutexInv, IsThread, Idle
  <1>3. IsSequence(stack) /\ Len(stack) = 0
    BY NoFrames DEF Init, Nested
  <1>4. StackInv
    BY <1>3 DEF Init, StackInv, SavepointsCounted, OpenUnits
  <1>5. WholeInv
    BY DEF Init, WholeInv
  <1> QED
    BY <1>2, <1>4, <1>5 DEF IInv

LEMMA StartInv ==
    ASSUME IInv, NEW t \in Threads, NEW request, Start(t, request) PROVE IInv'
  <1> DEFINE f == Frame([do |-> "request", rest |-> request, ignored |-> FALSE], 0, view)
             fs == <<f>>
  <1>1. owner # t
    <2>1. Len(thread[t].frames) = 0
      BY NoFrames DEF Start, Busy
    <2> QED
      BY <2>1 DEF IInv, MutexInv
  <1>2. Nested(fs) /\ Len(fs) = 1
    <2>1. f.do = "request" /\ f.depth = 0 /\ IsFrame(f)
      BY DEF Frame, IsFrame
    <2> HIDE DEF f
    <2>2. fs \in Seq({f}) /\ Len(fs) = 1 /\ fs[1] = f
      OBVIOUS
    <2>3. IsSequence(fs)
      BY <2>2, SomeSequence
    <2> QED
      BY <2>1, <2>2, <2>3 DEF Nested
  <1>3. LeftWith(t, fs)
    BY DEF Start, LeftWith, Idle, IInv, MutexInv
  <1>4. UNCHANGED <<disk, view, stack, owner, rolledBack>>
    BY DEF Start
  <1> HIDE DEF fs
  <1>5. ~(Len(fs) > 1)
    BY <1>2
  <1> QED
    BY <1>1, <1>2, <1>3, <1>4, <1>5, OutsiderKeeps

LEMMA ReturnInv ==
    ASSUME IInv, NEW t \in Threads, Return(t) PROVE IInv'
  <1>1. Busy(t) /\ Top(t).do = "request"
    BY DEF Return, Over
  <1>2. PICK n \in Nat : n = Len(thread[t].frames) /\ n > 0
    BY <1>1, BusyFrames DEF IInv
  <1>3. n = 1
    <2>1. ASSUME n > 1 PROVE FALSE
      <3>1. Above(thread[t].frames[n - 1], thread[t].frames[n])
        BY <1>1, <1>2, <2>1, UnderTop, BusyFrames DEF IInv
      <3> QED
        BY <1>1, <1>2, <3>1 DEF Above, Top, Units
    <2> QED
      BY <1>2, <2>1, Counts
  <1>4. owner # t
    <2>1. ~(n > 1)
      BY <1>3
    <2>2. (Len(thread[t].frames) > 1) <=> (owner = t)
      BY DEF IInv, MutexInv
    <2> QED
      BY <1>2, <2>1, <2>2
  <1>5. LeftWith(t, << >>)
    BY DEF Return, LeftWith, Idle, IInv, MutexInv
  <1>6. UNCHANGED <<disk, view, stack, owner, rolledBack>>
    BY DEF Return
  <1> QED
    BY <1>4, <1>5, <1>6, NoFrames, OutsiderKeeps

LEMMA CrashInv == ASSUME IInv, Crash PROVE IInv'
  <1>1. \A t \in Threads : thread'[t] = Idle
    BY DEF Crash
  <1>2. DOMAIN thread' = Threads /\ owner' = None
    BY DEF Crash
  <1>3. MutexInv'
    <2>1. \A t \in Threads : /\ {"frames", "failed"} \subseteq DOMAIN thread'[t]
                             /\ thread'[t].frames = << >>
      BY <1>1 DEF Idle
    <2>2. ~(Len(<< >>) > 1) /\ Nested(<< >>)
      BY NoFrames
    <2>3. \A t \in Threads : Nested(thread'[t].frames) /\ ~(Len(thread'[t].frames) > 1)
      BY <2>1, <2>2
    <2>4. \A t \in Threads : owner' # t
      BY <1>2, NoneAssumption
    <2> QED
      BY <1>2, <2>1, <2>3, <2>4 DEF MutexInv, IsThread, Nested, IsSequence, Above, IsFrame
  <1>4. stack' = << >> /\ rolledBack' = 0 /\ disk' = view'
    BY DEF Crash
  <1>5. IsSequence(stack') /\ Len(stack') = 0
    BY <1>4, NoFrames DEF Nested
  <1>6. StackInv'
    BY <1>2, <1>4, <1>5 DEF StackInv, SavepointsCounted, OpenUnits, IsSequence
  <1>7. WholeInv'
    BY <1>2 DEF WholeInv
  <1> QED
    BY <1>3, <1>6, <1>7 DEF IInv


LEMMA EnterCallInv ==
    ASSUME IInv, NEW t \in Threads, EnterCall(t) PROVE IInv'
  <1> DEFINE item == Head(Top(t).rest)
             x == Frame(item, Top(t).depth, view)
  <1>1. /\ MutexInv /\ Ready(t, {"request"} \cup Units) /\ MayLock(t)
        /\ item.do = "call"
        /\ owner' = t /\ thread' = [thread EXCEPT ![t].frames = Append(Taken(t), x)]
        /\ UNCHANGED <<disk, view, stack, rolledBack>>
    BY DEF EnterCall, IInv
  <1>2. Busy(t) /\ Top(t).depth \in Nat
    BY <1>1, BusyFrames DEF Ready
  <1>3. IsFrame(x) /\ x.do = "call" /\ x.depth = Top(t).depth
    BY <1>1, <1>2 DEF IsFrame, Frame
  <1>4. Above(Top(t), x)
    BY <1>3 DEF Above
  <1> HIDE DEF x
  <1>5. /\ MutexInv'
        /\ OpenUnits = Top(t).depth /\ OpenUnits' = x.depth
        /\ LeftWith(t, Append(Taken(t), x))
        /\ OnTop(Append(Taken(t), x), thread[t].frames, x)
    BY <1>1, <1>3, <1>4, EnterKeeps
  <1>6. StackInv'
    BY <1>1, <1>3, <1>5 DEF IInv, StackInv, SavepointsCounted
  <1>7. WholeInv'
    <2>1. PICK n \in Nat : n = Len(thread[t].frames) /\ n > 0
      BY <1>1, <1>2, BusyFrames
    <2>2. CASE n = 1
      <3>1. thread'[t].frames[2] = x
        BY <1>5, <2>1, <2>2 DEF LeftWith, OnTop
      <3> QED
        BY <1>1, <1>3, <3>1 DEF WholeInv, Units
    <2>3. CASE n > 1
      <3>1. owner = t /\ t # None
        BY <1>1, <1>2, <2>1, <2>3, BusyFrames, NoneAssumption
      <3>2. /\ thread'[t].frames[2].do = thread[t].frames[2].do
            /\ thread'[t].frames[2].before = thread[t].frames[2].before
        BY <1>5, <2>1, <2>3 DEF LeftWith, OnTop
      <3> QED
        BY <1>1, <3>1, <3>2 DEF IInv, WholeInv
    <2> QED
      BY <2>1, <2>2, <2>3, Counts
  <1> QED
    BY <1>5, <1>6, <1>7 DEF IInv

LEMMA EnterUnitInv ==
    ASSUME IInv, NEW t \in Threads, EnterUnit(t) PROVE IInv'
  <1> DEFINE item == Head(Top(t).rest)
             x == Frame(item, Top(t).depth + 1, view)
  <1>1. /\ MutexInv /\ Ready(t, {"request"} \cup Units) /\ MayLock(t)
        /\ item.do \in Units
        /\ owner' = t /\ thread' = [thread EXCEPT ![t].frames = Append(Taken(t), x)]
        /\ stack' = Append(stack, view)
        /\ UNCHANGED <<disk, view, rolledBack>>
    BY DEF EnterUnit, IInv
  <1>2. Busy(t) /\ Top(t).depth \in Nat
    BY <1>1, BusyFrames DEF Ready
  <1>3. IsFrame(x) /\ x.do \in Units /\ x.depth = Top(t).depth + 1 /\ x.before = view
    BY <1>1, <1>2 DEF IsFrame, Frame
  <1>4. Above(Top(t), x)
    BY <1>3 DEF Above
  <1> HIDE DEF x
  <1>5. /\ MutexInv'
        /\ OpenUnits = Top(t).depth /\ OpenUnits' = x.depth
        /\ LeftWith(t, Append(Taken(t), x))
        /\ OnTop(Append(Taken(t), x), thread[t].frames, x)
    BY <1>1, <1>3, <1>4, EnterKeeps
  <1>6. StackInv'
    <2>1. IsSequence(stack) /\ rolledBack \in Nat /\ Len(stack) = OpenUnits + rolledBack
      BY DEF IInv, StackInv, SavepointsCounted
    <2>2. IsSequence(stack') /\ Len(stack') = Len(stack) + 1
      BY <1>1, <2>1, Pushed
    <2>3. \A a, b \in Nat : (a + b) + 1 = (a + 1) + b
      OBVIOUS
    <2>4. Len(stack') = OpenUnits' + rolledBack'
      BY <1>1, <1>2, <1>3, <1>5, <2>1, <2>2, <2>3
    <2>5. stack' # << >>
      BY <2>1, <2>2, SequenceParts, Counts, NoFrames
    <2> QED
      BY <1>1, <2>1, <2>2, <2>4, <2>5 DEF StackInv, SavepointsCounted, IsSequence
  <1>7. WholeInv'
    <2>1. PICK n \in Nat : n = Len(thread[t].frames) /\ n > 0
      BY <1>1, <1>2, BusyFrames
    <2>2. CASE n = 1
      <3>1. thread'[t].frames[2] = x
        BY <1>5, <2>1, <2>2 DEF LeftWith, OnTop
      <3>2. rolledBack = 0 => disk = view
        <4> SUFFICES ASSUME rolledBack = 0 PROVE disk = view
          OBVIOUS
        <4>1. Top(t).depth = 0
          BY <1>1, <1>2, <2>1, <2>2, BusyFrames
        <4>2. Len(stack) = 0
          BY <1>5, <4>1 DEF IInv, StackInv, SavepointsCounted
        <4> QED
          BY <4>2, SequenceParts DEF IInv, StackInv
      <3> QED
        BY <1>1, <1>3, <3>1, <3>2 DEF WholeInv
    <2>3. CASE n > 1
      <3>1. owner = t /\ t # None
        BY <1>1, <1>2, <2>1, <2>3, BusyFrames, NoneAssumption
      <3>2. /\ thread'[t].frames[2].do = thread[t].frames[2].do
            /\ thread'[t].frames[2].before = thread[t].frames[2].before
        BY <1>5, <2>1, <2>3 DEF LeftWith, OnTop
      <3> QED
        BY <1>1, <3>1, <3>2 DEF IInv, WholeInv
    <2> QED
      BY <2>1, <2>2, <2>3, Counts
  <1> QED
    BY <1>5, <1>6, <1>7 DEF IInv

LEMMA FailUnitInv ==
    ASSUME IInv, NEW t \in Threads, FailUnit(t) PROVE IInv'
  <1> DEFINE fs == thread[t].frames
  <1>1. /\ MutexInv /\ Busy(t) /\ Top(t).do # "request"
        /\ thread' = [thread EXCEPT ![t].failed = TRUE]
        /\ UNCHANGED <<disk, view, stack, owner, rolledBack>>
    BY DEF FailUnit, Ready, IInv, Units
  <1>2. SameShape(fs, fs)
    BY <1>1, BusyFrames DEF SameShape
  <1>3. LeftWith(t, fs)
    BY <1>1, OneThreadChanged
  <1>4. /\ MutexInv' /\ owner = t /\ OpenUnits' = OpenUnits
    BY <1>1, <1>2, <1>3, OwnerKeeps
  <1>5. StackInv'
    BY <1>1, <1>4 DEF IInv, StackInv, SavepointsCounted
  <1>6. WholeInv'
    BY <1>1, <1>3, <1>4 DEF IInv, WholeInv, LeftWith
  <1> QED
    BY <1>4, <1>5, <1>6 DEF IInv

LEMMA StatementInv ==
    ASSUME IInv, NEW t \in Threads, Statement(t) PROVE IInv'
  <1> DEFINE fs == thread[t].frames
             s == Head(Top(t).rest)
  <1>1. /\ MutexInv /\ Busy(t) /\ Top(t).do = "call" /\ Top(t).do # "request"
        /\ UNCHANGED <<stack, owner, rolledBack>>
    BY DEF Statement, Ready, IInv
  <1>2. CASE Refused(s, view, stack # << >>)
    <2>1. thread' = [thread EXCEPT ![t].failed = TRUE] /\ UNCHANGED <<disk, view>>
      BY <1>2 DEF Statement
    <2>2. SameShape(fs, fs)
      BY <1>1, BusyFrames DEF SameShape
    <2>3. LeftWith(t, fs)
      BY <1>1, <2>1, OneThreadChanged
    <2>4. MutexInv' /\ owner = t /\ OpenUnits' = OpenUnits
      BY <1>1, <2>2, <2>3, OwnerKeeps
    <2>5. StackInv'
      BY <1>1, <2>1, <2>4 DEF IInv, StackInv, SavepointsCounted
    <2>6. WholeInv'
      BY <1>1, <2>1, <2>3, <2>4 DEF IInv, WholeInv, LeftWith
    <2> QED
      BY <2>4, <2>5, <2>6 DEF IInv
  <1>3. CASE ~Refused(s, view, stack # << >>)
    <2>1. /\ thread' = [thread EXCEPT ![t].frames = Taken(t)]
          /\ disk' = IF stack = << >> THEN view' ELSE disk
      BY <1>3 DEF Statement
    <2>2. SameShape(Taken(t), fs)
      <3>1. Nested(fs) /\ fs # << >>
        BY <1>1, BusyFrames DEF Busy
      <3>2. Taken(t) = [fs EXCEPT ![Len(fs)].rest = Tail(fs[Len(fs)].rest)]
        BY DEF Taken
      <3> QED
        BY <3>1, <3>2, TakenKeeps
    <2>3. LeftWith(t, Taken(t))
      BY <1>1, <2>1, OneThreadChanged
    <2>4. /\ MutexInv' /\ owner = t
          /\ OpenUnits = Top(t).depth /\ OpenUnits' = OpenUnits
          /\ Taken(t)[2].do = fs[2].do
          /\ Taken(t)[2].before = fs[2].before
          /\ (Top(t).depth > 0) <=> (fs[2].do \in Units)
      BY <1>1, <2>2, <2>3, OwnerKeeps
    <2>5. StackInv'
      BY <1>1, <2>1, <2>4 DEF IInv, StackInv, SavepointsCounted
    <2>6. WholeInv'
      <3>1. thread'[t].frames = Taken(t)
        BY <2>3 DEF LeftWith
      <3>2. CASE stack = << >>
        <4>1. rolledBack = 0 => Top(t).depth = 0
          <5>1. Len(stack) = 0 /\ rolledBack \in Nat /\ Len(stack) = OpenUnits + rolledBack
            BY <3>2, SequenceParts DEF IInv, StackInv, SavepointsCounted
          <5>2. Top(t).depth \in Nat
            BY <1>1, BusyFrames
          <5> QED
            BY <2>4, <5>1, <5>2
        <4>2. Top(t).depth = 0 => fs[2].do \notin Units
          BY <2>4
        <4> QED
          BY <1>1, <2>4, <3>1, <4>1, <4>2 DEF WholeInv
      <3>3. CASE stack # << >>
        BY <1>1, <2>1, <2>4, <3>1, <3>3 DEF IInv, WholeInv
      <3> QED
        BY <3>2, <3>3
    <2> QED
      BY <2>4, <2>5, <2>6 DEF IInv
  <1> QED
    BY <1>2, <1>3

LEMMA LeaveCallInv ==
    ASSUME IInv, NEW t \in Threads, LeaveCall(t) PROVE IInv'
  <1>1. /\ MutexInv /\ Busy(t) /\ Top(t).do = "call" /\ Top(t).do # "request"
        /\ owner' = Unlocked(t) /\ Popped(t)
        /\ UNCHANGED <<disk, view, stack, rolledBack>>
    BY DEF LeaveCall, Over, IInv
  <1>2. PICK gs : gs = Under(t)
    OBVIOUS
  <1>3. /\ MutexInv' /\ owner = t
        /\ OpenUnits = Top(t).depth
        /\ OpenUnits' = gs[Len(gs)].depth
        /\ LeftWith(t, gs)
        /\ WithoutTop(gs, thread[t].frames)
    BY <1>1, <1>2, LeaveKeeps
  <1>4. OpenUnits' = OpenUnits
    BY <1>1, <1>3 DEF WithoutTop, Top
  <1>5. StackInv'
    BY <1>1, <1>4 DEF IInv, StackInv, SavepointsCounted
  <1>6. WholeInv'
    <2>1. Len(gs) > 1 => gs[2] = thread[t].frames[2]
      BY <1>3 DEF WithoutTop
    <2>2. owner' # None => Len(gs) > 1 /\ owner' = t
      <3> SUFFICES ASSUME owner' # None PROVE Len(gs) > 1 /\ owner' = t
        OBVIOUS
      <3>1. owner' = t
        BY <1>1 DEF Unlocked
      <3>2. (Len(thread'[t].frames) > 1) <=> (owner' = t)
        BY <1>3 DEF MutexInv
      <3> QED
        BY <1>3, <3>1, <3>2 DEF LeftWith
    <2>3. thread'[t].frames = gs /\ t # None
      BY <1>3, NoneAssumption DEF LeftWith
    <2> QED
      BY <1>1, <1>3, <2>1, <2>2, <2>3 DEF IInv, WholeInv
  <1> QED
    BY <1>3, <1>5, <1>6 DEF IInv

LEMMA LeaveUnitInv ==
    ASSUME IInv, NEW t \in Threads, LeaveUnit(t) PROVE IInv'
  <1>1. /\ MutexInv /\ Busy(t) /\ Top(t).do \in Units /\ Top(t).do # "request"
        /\ owner' = Unlocked(t) /\ Popped(t)
        /\ RollbackTo \/ Release
    BY DEF LeaveUnit, Over, IInv, Units
  <1>2. PICK gs : gs = Under(t)
    OBVIOUS
  <1>3. /\ MutexInv' /\ owner = t
        /\ OpenUnits = Top(t).depth
        /\ OpenUnits' = gs[Len(gs)].depth
        /\ LeftWith(t, gs)
        /\ WithoutTop(gs, thread[t].frames)
    BY <1>1, <1>2, LeaveKeeps
  <1>4. /\ OpenUnits' \in Nat /\ OpenUnits = OpenUnits' + 1
        /\ Len(gs) = 1 => OpenUnits' = 0
        /\ Len(gs) > 1 => OpenUnits' > 0
        /\ Len(gs) > 1 => gs[2] = thread[t].frames[2]
    BY <1>1, <1>3 DEF WithoutTop, Top
  <1>5. PICK k \in Nat : k = OpenUnits'
    BY <1>4
  <1>6. /\ IsSequence(stack) /\ Len(stack) \in Nat /\ rolledBack \in Nat
        /\ Len(stack) = (k + 1) + rolledBack
    BY <1>4, <1>5, SequenceParts DEF IInv, StackInv, SavepointsCounted
  <1>7. Len(stack) > 0
    BY <1>6
  <1>8. CASE RollbackTo
    <2>1. UNCHANGED <<disk, stack>> /\ rolledBack' = rolledBack + 1
      BY <1>8 DEF RollbackTo
    <2>2. stack # << >>
      BY <1>6, <1>7, SequenceParts
    <2>3. Len(stack') = OpenUnits' + rolledBack' /\ rolledBack' \in Nat /\ rolledBack' # 0
      <3>1. \A a, b \in Nat : (a + 1) + b = a + (b + 1) /\ b + 1 \in Nat /\ b + 1 # 0
        OBVIOUS
      <3> QED
        BY <1>5, <1>6, <2>1, <3>1
    <2>4. StackInv'
      BY <1>6, <2>1, <2>2, <2>3 DEF StackInv, SavepointsCounted
    <2>5. WholeInv'
      BY <2>3 DEF WholeInv
    <2> QED
      BY <1>3, <2>4, <2>5 DEF IInv
  <1>9. CASE Release
    <2>1. /\ stack' = SubSeq(stack, 1, Len(stack) - 1)
          /\ disk' = IF Len(stack) = 1 THEN view ELSE disk
          /\ UNCHANGED <<view, rolledBack>>
      BY <1>9 DEF Release
    <2>2. IsSequence(stack') /\ Len(stack') = Len(stack) - 1
      BY <1>6, <1>7, <2>1, Shortened
    <2>3. Len(stack') = OpenUnits' + rolledBack'
      <3>1. \A a, b \in Nat : ((a + 1) + b) - 1 = a + b
        OBVIOUS
      <3> QED
        BY <1>5, <1>6, <2>1, <2>2, <3>1
    <2>4. stack' = << >> => Len(stack) = 1
      BY <1>6, <1>7, <2>2, SequenceParts, Counts
    <2>5. stack' = << >> => disk' = view'
      BY <2>1, <2>4
    <2>6. StackInv'
      BY <1>6, <2>1, <2>2, <2>3, <2>5 DEF StackInv, SavepointsCounted
    <2>7. WholeInv'
      <3> SUFFICES ASSUME rolledBack' = 0, owner' # None,
                          thread'[owner'].frames[2].do \in Units
                   PROVE  disk' = thread'[owner'].frames[2].before
        BY DEF WholeInv
      <3>1. owner' = t
        BY <1>1 DEF Unlocked
      <3>2. (Len(thread'[t].frames) > 1) <=> (owner' = t)
        BY <1>3 DEF MutexInv
      <3>3. thread'[t].frames = gs /\ t # None
        BY <1>3, NoneAssumption DEF LeftWith
      <3>4. Len(gs) > 1
        BY <3>1, <3>2, <3>3
      <3>5. k > 0 /\ gs[2] = thread[t].frames[2]
        BY <1>4, <1>5, <3>4
      <3>6. Len(stack) # 1
        BY <1>6, <3>5
      <3>7. disk' = disk
        BY <2>1, <3>6
      <3> QED
        BY <1>3, <2>1, <3>1, <3>3, <3>5, <3>7 DEF IInv, WholeInv
    <2> QED
      BY <1>3, <2>6, <2>7 DEF IInv
  <1> QED
    BY <1>1, <1>8, <1>9

-----------------------------------------------------------------------------
(* The theorems *)

LEMMA StepInv == IInv /\ [Next]_vars => IInv'
  <1> SUFFICES ASSUME IInv, [Next]_vars PROVE IInv'
    OBVIOUS
  <1>1. CASE UNCHANGED vars
    <2>1. UNCHANGED <<disk, view, stack, owner, thread, rolledBack>>
      BY <1>1 DEF vars
    <2>2. MutexInv'
      <3>1. \A t \in Threads : IsThread(thread'[t])
        BY <2>1 DEF IInv, MutexInv
      <3>2. \A t \in Threads : (Len(thread'[t].frames) > 1) <=> (owner' = t)
        BY <2>1 DEF IInv, MutexInv
      <3>3. owner' \in Threads \cup {None} /\ DOMAIN thread' = Threads
        BY <2>1 DEF IInv, MutexInv
      <3> QED
        BY <3>1, <3>2, <3>3 DEF MutexInv, IsThread, Nested, IsSequence
    <2>3. OpenUnits' = OpenUnits
      BY <2>1 DEF OpenUnits, Top
    <2>4. StackInv'
      BY <2>1, <2>3 DEF IInv, StackInv, SavepointsCounted, IsSequence
    <2>5. WholeInv'
      BY <2>1 DEF IInv, WholeInv
    <2> QED
      BY <2>2, <2>4, <2>5 DEF IInv
  <1>2. CASE Crash
    BY <1>2, CrashInv
  <1>3. ASSUME NEW t \in Threads, Serve(t) PROVE IInv'
    BY <1>3, EnterCallInv, EnterUnitInv, FailUnitInv, StatementInv, LeaveCallInv,
       LeaveUnitInv, ReturnInv DEF Serve, Enter, Leave
  <1>4. ASSUME NEW t \in Threads, NEW request \in Requests, Start(t, request) PROVE IInv'
    BY <1>4, StartInv
  <1> QED
    BY <1>1, <1>2, <1>3, <1>4 DEF Next

(* Whatever a storage call or a unit wrote is on disk when the mutex is     *)
(* free, unless a unit was rolled back since the file was opened.           *)
THEOREM SettledWritesDurableHolds == Spec => []SettledWritesDurable
  <1>1. IInv => SettledWritesDurable
    <2> SUFFICES ASSUME IInv, owner = None, rolledBack = 0 PROVE disk = view
      BY DEF SettledWritesDurable
    <2>1. Len(stack) = 0
      BY DEF IInv, StackInv, SavepointsCounted, OpenUnits
    <2> QED
      BY <2>1, SequenceParts DEF IInv, StackInv
  <1> QED
    BY <1>1, InitInv, StepInv, PTL DEF Spec

(* A unit is all or nothing: a crash while a thread is in one leaves what   *)
(* its outermost unit found.                                                *)
THEOREM UnitsWholeHolds == Spec => []UnitsWhole
  <1>1. IInv => UnitsWhole
    <2> SUFFICES ASSUME IInv, rolledBack = 0, NEW t \in Threads, Busy(t), Top(t).depth > 0
                 PROVE  disk = thread[t].frames[2].before
      BY DEF UnitsWhole
    <2>1. PICK fs : fs = thread[t].frames
      OBVIOUS
    <2>2. Nested(fs) /\ fs # << >> /\ (Len(fs) > 1 => owner = t) /\ fs[Len(fs)].depth > 0
      BY <2>1, BusyFrames DEF IInv, Busy, Top
    <2>3. Len(fs) > 1 /\ fs[2].do \in Units
      BY <2>2, InUnit
    <2> QED
      BY <2>1, <2>2, <2>3, NoneAssumption DEF IInv, WholeInv
  <1> QED
    BY <1>1, InitInv, StepInv, PTL DEF Spec
-----------------------------------------------------------------------------
(* What a call does to the tables *)

(* The tables have the columns the statements read. *)
HasTables(d) ==
    /\ {"row", "history", "edges", "generations"} \subseteq DOMAIN d
    /\ DOMAIN d.row = Partitions
    /\ DOMAIN d.history = Partitions
    /\ \A p \in Partitions : d.history[p] \in Seq(Snaps)

(* d is torn where b is, and at most in one more partition or edge. *)
TearsNothing(d, b) ==
    TornPartitions(d) \subseteq TornPartitions(b) /\ TornEdges(d) \subseteq TornEdges(b)
TearsPartition(d, b, p) ==
    TornPartitions(d) \subseteq TornPartitions(b) \cup {p} /\ TornEdges(d) \subseteq TornEdges(b)
TearsEdge(d, b, e) ==
    TornPartitions(d) \subseteq TornPartitions(b) /\ TornEdges(d) \subseteq TornEdges(b) \cup {e}

(* What holds between two statements of a call about partition p *)
AtPartition(rest, d, b, p) ==
    \/ \E x \in Snaps : /\ rest = <<SqlTo("insert history", p, x)>>
                        /\ \/ d.row[p] = x
                           \/ d = b /\ d.row[p] = None
    \/ /\ rest = <<Sql("update to baseline", p), Sql("keep baseline", p)>>
       /\ d.history[p] # << >>
       /\ d = b
    \/ /\ rest = <<Sql("keep baseline", p)>>
       /\ d.history[p] # << >>
       /\ IF d.row[p] = None THEN p \in TornPartitions(b) ELSE d.row[p] = d.history[p][1]
    \/ rest = <<Sql("delete partition", p)>> /\ d.history[p] = << >>

Number(n) == [sql |-> "number", node |-> n]

(* ... of one that stores the edge from m to n ... *)
AtEdge(rest, d, m, n) ==
    \/ rest = <<Number(n), Number(m)>>
    \/ rest = <<Number(m)>> /\ n \in d.generations

(* ... and of one that deletes node n. *)
AtNode(rest, d, n) ==
    /\ rest = <<[sql |-> "delete number", node |-> n]>>
    /\ \A e \in d.edges : n \notin {e[1], e[2]}

(* A call that found b is at d with the statements rest to go. *)
Underway(rest, d, b) ==
    \/ rest = << >> /\ TearsNothing(d, b)
    \/ d = b /\ \E call \in StorageCalls : rest = call.rest
    \/ \E p \in Partitions : TearsPartition(d, b, p) /\ AtPartition(rest, d, b, p)
    \/ \E m, n \in Nodes : TearsEdge(d, b, <<m, n>>) /\ AtEdge(rest, d, m, n)
    \/ \E n \in Nodes : TearsNothing(d, b) /\ AtNode(rest, d, n)

-----------------------------------------------------------------------------
(* The second invariant *)

(* A frame holds items, and is as deep as the units under it. *)
IsItemFrame(x, i) ==
    /\ "rest" \in DOMAIN x
    /\ x.do # "call" => x.rest \in Seq(Items) /\ x.depth = i - 1

ItemsInv ==
    \A t \in Threads : \A i \in 1..Len(thread[t].frames) : IsItemFrame(thread[t].frames[i], i)

Calling == owner # None /\ Top(owner).do = "call"

TornAtMost(d, k) == HasTables(d) /\ IsFiniteSet(Torn(d)) /\ Cardinality(Torn(d)) <= k

(* A call that was refused has changed nothing. *)
CallInv ==
    Calling =>
        /\ Underway(Top(owner).rest, view, Top(owner).before)
        /\ thread[owner].failed => view = Top(owner).before
        /\ TornAtMost(Top(owner).before, crashes)

(* Whatever may become the view again is torn by crashes alone. *)
TablesInv ==
    /\ crashes \in Nat
    /\ HasTables(view) /\ HasTables(disk)
    /\ ~Calling => TornAtMost(view, crashes)
    /\ stack # << >> => TornAtMost(disk, crashes)
    /\ \A i \in 1..Len(stack) : TornAtMost(stack[i], crashes)

(* Without leftovers of a rollback, a savepoint is what its unit found. *)
RestoreInv ==
    rolledBack = 0 /\ owner # None =>
        \A i \in 1..Len(stack) : stack[i] = thread[owner].frames[i + 1].before

DataInv == ItemsInv /\ CallInv /\ TablesInv /\ RestoreInv

-----------------------------------------------------------------------------
(* Statements *)

(* Executed, statement by statement. *)
LEMMA Statements ==
    ASSUME NEW d, NEW s
    PROVE  /\ s.sql = "insert partition" => Executed(s, d) = WithRow(d, s.part, s.snap)
           /\ s.sql = "update partition" =>
                 Executed(s, d) = IF d.row[s.part] = None THEN d ELSE WithRow(d, s.part, s.snap)
           /\ s.sql = "update to baseline" =>
                 Executed(s, d) = IF d.row[s.part] = None THEN d
                                  ELSE WithRow(d, s.part, d.history[s.part][1])
           /\ s.sql = "delete partition" => Executed(s, d) = WithRow(d, s.part, None)
           /\ s.sql = "insert history" =>
                 Executed(s, d) = [d EXCEPT !.history[s.part] = Append(@, s.snap)]
           /\ s.sql = "keep baseline" =>
                 Executed(s, d) = [d EXCEPT !.history[s.part] = SubSeq(@, 1, 1)]
           /\ s.sql = "delete history" => Executed(s, d) = [d EXCEPT !.history[s.part] = << >>]
           /\ s.sql = "insert edge" => Executed(s, d) = [d EXCEPT !.edges = @ \cup {s.edge}]
           /\ s.sql = "number" => Executed(s, d) = [d EXCEPT !.generations = @ \cup {s.node}]
           /\ s.sql = "batch" =>
                 Executed(s, d) = [d EXCEPT !.edges = @ \cup s.edges, !.generations = @ \cup s.nodes]
           /\ s.sql = "delete edges" =>
                 Executed(s, d) = [d EXCEPT !.edges = {e \in @ : s.node \notin {e[1], e[2]}}]
           /\ s.sql = "delete number" => Executed(s, d) = [d EXCEPT !.generations = @ \ {s.node}]
           /\ s.sql = "vacuum" => Executed(s, d) = d
           /\ s.sql = "select baseline" => Executed(s, d) = d
  <1>1. ASSUME s.sql = "insert partition"
       PROVE  Executed(s, d) = WithRow(d, s.part, s.snap)
    BY <1>1, Zenon DEF Executed
  <1>2. ASSUME s.sql = "update partition"
       PROVE  Executed(s, d) = IF d.row[s.part] = None THEN d ELSE WithRow(d, s.part, s.snap)
    BY <1>2, Zenon DEF Executed
  <1>3. ASSUME s.sql = "update to baseline"
       PROVE  Executed(s, d) = IF d.row[s.part] = None THEN d
                                  ELSE WithRow(d, s.part, d.history[s.part][1])
    BY <1>3, Zenon DEF Executed
  <1>4. ASSUME s.sql = "delete partition"
       PROVE  Executed(s, d) = WithRow(d, s.part, None)
    BY <1>4, Zenon DEF Executed
  <1>5. ASSUME s.sql = "insert history"
       PROVE  Executed(s, d) = [d EXCEPT !.history[s.part] = Append(@, s.snap)]
    BY <1>5, Zenon DEF Executed
  <1>6. ASSUME s.sql = "keep baseline"
       PROVE  Executed(s, d) = [d EXCEPT !.history[s.part] = SubSeq(@, 1, 1)]
    BY <1>6, Zenon DEF Executed
  <1>7. ASSUME s.sql = "delete history"
       PROVE  Executed(s, d) = [d EXCEPT !.history[s.part] = << >>]
    BY <1>7, Zenon DEF Executed
  <1>8. ASSUME s.sql = "insert edge"
       PROVE  Executed(s, d) = [d EXCEPT !.edges = @ \cup {s.edge}]
    BY <1>8, Zenon DEF Executed
  <1>9. ASSUME s.sql = "number"
       PROVE  Executed(s, d) = [d EXCEPT !.generations = @ \cup {s.node}]
    BY <1>9, Zenon DEF Executed
  <1>10. ASSUME s.sql = "batch"
       PROVE  Executed(s, d) = [d EXCEPT !.edges = @ \cup s.edges, !.generations = @ \cup s.nodes]
    BY <1>10, Zenon DEF Executed
  <1>11. ASSUME s.sql = "delete edges"
       PROVE  Executed(s, d) = [d EXCEPT !.edges = {e \in @ : s.node \notin {e[1], e[2]}}]
    BY <1>11, Zenon DEF Executed
  <1>12. ASSUME s.sql = "delete number"
       PROVE  Executed(s, d) = [d EXCEPT !.generations = @ \ {s.node}]
    BY <1>12, Zenon DEF Executed
  <1>13. ASSUME s.sql = "vacuum"
       PROVE  Executed(s, d) = d
    BY <1>13, Zenon DEF Executed
  <1>14. ASSUME s.sql = "select baseline"
       PROVE  Executed(s, d) = d
    BY <1>14, Zenon DEF Executed
  <1> QED
    BY <1>1, <1>2, <1>3, <1>4, <1>5, <1>6, <1>7,
       <1>8, <1>9, <1>10, <1>11, <1>12, <1>13, <1>14

(* What is refused, and what that says of the tables. *)
LEMMA Refusals ==
    ASSUME NEW d, NEW s, NEW open, Refused(s, d, open)
    PROVE  /\ s.sql \in {"insert partition", "insert history", "delete partition",
                         "select baseline", "batch", "vacuum"}
           /\ s.sql = "insert partition" => d.row[s.part] # None
           /\ s.sql = "insert history" => d.row[s.part] = None
           /\ s.sql = "delete partition" => d.history[s.part] # << >>
  BY DEF Refused

(* What a statement that is not refused can count on. *)
LEMMA Allowed ==
    ASSUME NEW d, NEW s, NEW open, ~Refused(s, d, open)
    PROVE  /\ s.sql = "insert partition" => d.row[s.part] = None
           /\ s.sql = "insert history" => d.row[s.part] # None
           /\ s.sql = "select baseline" => d.history[s.part] # << >>
  BY DEF Refused

-----------------------------------------------------------------------------
(* Changes of one table *)

(* e is d with x in the row of p ... *)
RowSet(e, d, p, x) ==
    /\ HasTables(e)
    /\ e.history = d.history /\ e.edges = d.edges /\ e.generations = d.generations
    /\ e.row[p] = x
    /\ \A q \in Partitions \ {p} : e.row[q] = d.row[q]

(* ... with the history h of p ... *)
HistorySet(e, d, p, h) ==
    /\ HasTables(e)
    /\ e.row = d.row /\ e.edges = d.edges /\ e.generations = d.generations
    /\ e.history[p] = h
    /\ \A q \in Partitions \ {p} : e.history[q] = d.history[q]

(* ... with other edges and generations. *)
GraphSet(e, d, edges, generations) ==
    /\ HasTables(e)
    /\ e.row = d.row /\ e.history = d.history
    /\ e.edges = edges /\ e.generations = generations

LEMMA RowChanged ==
    ASSUME NEW d, HasTables(d), NEW p \in Partitions, NEW x
    PROVE  RowSet(WithRow(d, p, x), d, p, x)
  BY DEF HasTables, RowSet, WithRow

LEMMA HistoryChanged ==
    ASSUME NEW d, HasTables(d), NEW p \in Partitions, NEW h \in Seq(Snaps)
    PROVE  HistorySet([d EXCEPT !.history[p] = h], d, p, h)
  <1> DEFINE e == [d EXCEPT !.history[p] = h]
  <1>1. /\ DOMAIN e = DOMAIN d
        /\ e.row = d.row /\ e.edges = d.edges /\ e.generations = d.generations
    BY DEF HasTables
  <1>2. DOMAIN e.history = Partitions /\ e.history[p] = h
    BY DEF HasTables
  <1>3. \A q \in Partitions \ {p} : e.history[q] = d.history[q]
    BY DEF HasTables
  <1> HIDE DEF e
  <1>4. HasTables(e)
    BY <1>1, <1>2, <1>3 DEF HasTables
  <1>5. HistorySet(e, d, p, h)
    BY <1>1, <1>2, <1>3, <1>4 DEF HistorySet
  <1> QED
    BY <1>5 DEF e

LEMMA GraphChanged ==
    ASSUME NEW d, HasTables(d), NEW E, NEW G
    PROVE  /\ GraphSet([d EXCEPT !.edges = E], d, E, d.generations)
           /\ GraphSet([d EXCEPT !.generations = G], d, d.edges, G)
           /\ GraphSet([d EXCEPT !.edges = E, !.generations = G], d, E, G)
  BY DEF HasTables, GraphSet

(* A history with one more row ends in it ... *)
LEMMA SnapAdded ==
    ASSUME NEW h \in Seq(Snaps), NEW x \in Snaps
    PROVE  /\ Append(h, x) \in Seq(Snaps)
           /\ Append(h, x) # << >>
           /\ Append(h, x)[Len(Append(h, x))] = x
  <1>1. Len(Append(h, x)) = Len(h) + 1 /\ Append(h, x)[Len(h) + 1] = x /\ Len(h) \in Nat
    OBVIOUS
  <1> QED
    BY <1>1

(* ... and one cut down to its baseline in that. *)
LEMMA FirstKept ==
    ASSUME NEW h \in Seq(Snaps), h # << >>
    PROVE  /\ h[1] \in Snaps
           /\ SubSeq(h, 1, 1) \in Seq(Snaps)
           /\ SubSeq(h, 1, 1) # << >>
           /\ SubSeq(h, 1, 1)[Len(SubSeq(h, 1, 1))] = h[1]
  <1>1. Len(h) > 0 /\ Len(h) \in Nat
    OBVIOUS
  <1>2. \A i \in 1..1 : h[i] \in Snaps
    BY <1>1
  <1> DEFINE k == SubSeq(h, 1, 1)
  <1>3. k \in Seq(Snaps) /\ Len(k) = 1 /\ k[1] = h[1]
    BY <1>1, <1>2, SubSeqProperties
  <1> HIDE DEF k
  <1>4. IsSequence(k)
    BY <1>3, SomeSequence
  <1>5. k = << >> => Len(k) = 0
    BY <1>4, SequenceParts
  <1>6. h[1] \in Snaps /\ k \in Seq(Snaps) /\ k # << >> /\ k[Len(k)] = h[1]
    BY <1>2, <1>3, <1>5
  <1> QED
    BY <1>6 DEF k

-----------------------------------------------------------------------------
(* What is torn *)

TornPartition(d, p) ==
    IF d.row[p] = None THEN d.history[p] # << >>
    ELSE d.history[p] = << >> \/ d.history[p][Len(d.history[p])] # d.row[p]

LEMMA PartitionTorn ==
    ASSUME NEW d, NEW p \in Partitions
    PROVE  (p \in TornPartitions(d)) <=> TornPartition(d, p)
  BY DEF TornPartitions, TornPartition

(* A change of one partition tears that one at most, and mends it if it fits. *)
LEMMA PartitionOnly ==
    ASSUME NEW d, NEW b, NEW e, NEW p \in Partitions, NEW x,
           RowSet(e, d, p, x) \/ HistorySet(e, d, p, x), TearsPartition(d, b, p)
    PROVE  /\ TearsPartition(e, b, p)
           /\ ~TornPartition(e, p) \/ p \in TornPartitions(b) => TearsNothing(e, b)
  <1>1. TornEdges(e) = TornEdges(d)
    BY DEF TornEdges, RowSet, HistorySet
  <1>2. \A q \in Partitions \ {p} : TornPartition(e, q) = TornPartition(d, q)
    BY DEF TornPartition, RowSet, HistorySet
  <1>3. \A q \in TornPartitions(e) : q \in Partitions
    BY DEF TornPartitions
  <1>4. \A q \in TornPartitions(e) : q # p => q \in TornPartitions(b)
    <2> SUFFICES ASSUME NEW q \in TornPartitions(e), q # p PROVE q \in TornPartitions(b)
      OBVIOUS
    <2>1. q \in Partitions \ {p}
      BY <1>3
    <2>2. TornPartition(e, q)
      BY <2>1, PartitionTorn
    <2>3. q \in TornPartitions(d)
      BY <1>2, <2>1, <2>2, PartitionTorn
    <2> QED
      BY <2>3 DEF TearsPartition
  <1> QED
    BY <1>1, <1>4, PartitionTorn DEF TearsPartition, TearsNothing

LEMMA GraphOnly ==
    ASSUME NEW d, NEW e, NEW E, NEW G, GraphSet(e, d, E, G)
    PROVE  TornPartitions(e) = TornPartitions(d)
  BY DEF TornPartitions, GraphSet

LEMMA Reflexive ==
    ASSUME NEW d, NEW y
    PROVE  TearsNothing(d, d) /\ TearsPartition(d, d, y) /\ TearsEdge(d, d, y)
  BY DEF TearsNothing, TearsPartition, TearsEdge

-----------------------------------------------------------------------------
(* The statements of the calls *)

PartitionCall(rest) ==
    \E p \in Partitions :
        \/ \E x \in Snaps :
              \/ rest = <<SqlTo("insert partition", p, x), SqlTo("insert history", p, x)>>
              \/ rest = <<SqlTo("update partition", p, x), SqlTo("insert history", p, x)>>
        \/ rest = <<Sql("select baseline", p), Sql("update to baseline", p), Sql("keep baseline", p)>>
        \/ rest = <<Sql("delete history", p), Sql("delete partition", p)>>

EdgeCall(rest) ==
    \E m, n \in Nodes :
        rest = <<[sql |-> "insert edge", edge |-> <<m, n>>], Number(n), Number(m)>>

BatchCall(rest) ==
    \E g \in WholeGraphs : rest = <<[sql |-> "batch", edges |-> g.edges, nodes |-> g.nodes]>>

NodeCall(rest) ==
    \E n \in Nodes :
        rest = <<[sql |-> "delete edges", node |-> n], [sql |-> "delete number", node |-> n]>>

OtherCall(rest) ==
    \/ \E table \in Tables :
          \/ rest = <<[sql |-> "fill", table |-> table]>>
          \/ rest = <<[sql |-> "clear", table |-> table]>>
    \/ rest = <<[sql |-> "vacuum"]>>

LEMMA CallRests ==
    ASSUME NEW p, NEW x, NEW m, NEW n
    PROVE  /\ CreatePartition(p, x).rest
                = <<SqlTo("insert partition", p, x), SqlTo("insert history", p, x)>>
           /\ UpdatePointer(p, x).rest
                = <<SqlTo("update partition", p, x), SqlTo("insert history", p, x)>>
           /\ ResetPartitionToBaseline(p).rest
                = <<Sql("select baseline", p), Sql("update to baseline", p), Sql("keep baseline", p)>>
           /\ DeletePartition(p).rest = <<Sql("delete history", p), Sql("delete partition", p)>>
           /\ StoreDagEdge(m, n).rest
                = <<[sql |-> "insert edge", edge |-> <<m, n>>], Number(n), Number(m)>>
           /\ StoreDagBatch(m, n).rest = <<[sql |-> "batch", edges |-> m, nodes |-> n]>>
           /\ DeleteDagNode(n).rest
                = <<[sql |-> "delete edges", node |-> n], [sql |-> "delete number", node |-> n]>>
           /\ Store(n).rest = <<[sql |-> "fill", table |-> n]>>
           /\ RunMaintenance.rest = <<[sql |-> "vacuum"]>>
  <1>1. \A s : Call(s).rest = s
    BY DEF Call
  <1> QED
    BY <1>1, Zenon DEF CreatePartition, UpdatePointer, ResetPartitionToBaseline, DeletePartition,
       StoreDagEdge, StoreDagBatch, DeleteDagNode, Store, RunMaintenance, Number

LEMMA CallForms ==
    ASSUME NEW call \in StorageCalls
    PROVE  \/ PartitionCall(call.rest) \/ EdgeCall(call.rest) \/ BatchCall(call.rest)
           \/ NodeCall(call.rest) \/ OtherCall(call.rest)
  <1>1. ASSUME call \in PartitionCalls PROVE PartitionCall(call.rest)
    <2>1. ASSUME NEW p \in Partitions, NEW x \in Snaps, call = CreatePartition(p, x)
          PROVE  PartitionCall(call.rest)
      BY <2>1, CallRests, Zenon DEF PartitionCall
    <2>2. ASSUME NEW p \in Partitions, NEW x \in Snaps, call = UpdatePointer(p, x)
          PROVE  PartitionCall(call.rest)
      BY <2>2, CallRests, Zenon DEF PartitionCall
    <2>3. ASSUME NEW p \in Partitions, call = ResetPartitionToBaseline(p)
          PROVE  PartitionCall(call.rest)
      BY <2>3, CallRests, Zenon DEF PartitionCall
    <2>4. ASSUME NEW p \in Partitions, call = DeletePartition(p)
          PROVE  PartitionCall(call.rest)
      BY <2>4, CallRests, Zenon DEF PartitionCall
    <2> QED
      BY <1>1, <2>1, <2>2, <2>3, <2>4 DEF PartitionCalls
  <1>2. ASSUME call \in DagCalls
        PROVE  EdgeCall(call.rest) \/ BatchCall(call.rest) \/ NodeCall(call.rest)
    <2>1. ASSUME NEW m \in Nodes, NEW n \in Nodes, call = StoreDagEdge(m, n)
          PROVE  EdgeCall(call.rest)
      BY <2>1, CallRests, Zenon DEF EdgeCall
    <2>2. ASSUME NEW g \in WholeGraphs, call = StoreDagBatch(g.edges, g.nodes)
          PROVE  BatchCall(call.rest)
      <3>1. call.rest = <<[sql |-> "batch", edges |-> g.edges, nodes |-> g.nodes]>>
        BY <2>2, CallRests, Zenon
      <3> QED
        BY <3>1, Zenon DEF BatchCall
    <2>3. ASSUME NEW n \in Nodes, call = DeleteDagNode(n)
          PROVE  NodeCall(call.rest)
      BY <2>3, CallRests, Zenon DEF NodeCall
    <2> QED
      BY <1>2, <2>1, <2>2, <2>3 DEF DagCalls
  <1>3. ASSUME call \in OtherCalls PROVE OtherCall(call.rest)
    <2>1. ASSUME NEW table \in Tables, call = Store(table) PROVE OtherCall(call.rest)
      BY <2>1, CallRests, Zenon DEF OtherCall
    <2>2. ASSUME NEW table \in Tables, call = Call(<<[sql |-> "clear", table |-> table]>>)
          PROVE  OtherCall(call.rest)
      <3>1. call.rest = <<[sql |-> "clear", table |-> table]>>
        BY <2>2 DEF Call
      <3> QED
        BY <3>1, Zenon DEF OtherCall
    <2>3. ASSUME call = RunMaintenance PROVE OtherCall(call.rest)
      BY <2>3, CallRests, Zenon DEF OtherCall
    <2> QED
      BY <1>3, <2>1, <2>2, <2>3 DEF OtherCalls
  <1> QED
    BY <1>1, <1>2, <1>3 DEF StorageCalls

LEMMA OneLeft == ASSUME NEW x PROVE <<x>> # << >> /\ Head(<<x>>) = x /\ Tail(<<x>>) = << >>
  OBVIOUS

LEMMA TwoLeft ==
    ASSUME NEW x, NEW y
    PROVE  <<x, y>> # << >> /\ Head(<<x, y>>) = x /\ Tail(<<x, y>>) = <<y>>
  OBVIOUS

LEMMA ThreeLeft ==
    ASSUME NEW x, NEW y, NEW z
    PROVE  <<x, y, z>> # << >> /\ Head(<<x, y, z>>) = x /\ Tail(<<x, y, z>>) = <<y, z>>
  OBVIOUS

-----------------------------------------------------------------------------
(* Calls under way *)

(* A call is refused before it has changed anything. *)
LEMMA RefusedAtOnce ==
    ASSUME NEW d, NEW b, NEW rest, Underway(rest, d, b), rest # << >>,
           NEW open, Refused(Head(rest), d, open)
    PROVE  d = b
  <1>1. PICK s : s = Head(rest)
    OBVIOUS
  <1>2. /\ s.sql \in {"insert partition", "insert history", "delete partition",
                      "select baseline", "batch", "vacuum"}
        /\ s.sql = "insert history" => d.row[s.part] = None
        /\ s.sql = "delete partition" => d.history[s.part] # << >>
    BY <1>1, Refusals
  <1>3. ASSUME NEW p \in Partitions, AtPartition(rest, d, b, p) PROVE d = b
    <2>1. ASSUME NEW x \in Snaps, rest = <<SqlTo("insert history", p, x)>>, d.row[p] = x
          PROVE  FALSE
      <3>1. s = SqlTo("insert history", p, x)
        BY <1>1, <2>1, OneLeft, Zenon
      <3> QED
        BY <1>2, <2>1, <3>1, NoneAssumption DEF SqlTo
    <2>2. ASSUME rest = <<Sql("update to baseline", p), Sql("keep baseline", p)>> PROVE FALSE
      <3>1. s = Sql("update to baseline", p)
        BY <1>1, <2>2, TwoLeft, Zenon
      <3> QED
        BY <1>2, <3>1 DEF Sql
    <2>3. ASSUME rest = <<Sql("keep baseline", p)>> PROVE FALSE
      <3>1. s = Sql("keep baseline", p)
        BY <1>1, <2>3, OneLeft, Zenon
      <3> QED
        BY <1>2, <3>1 DEF Sql
    <2>4. ASSUME rest = <<Sql("delete partition", p)>>, d.history[p] = << >> PROVE FALSE
      <3>1. s = Sql("delete partition", p)
        BY <1>1, <2>4, OneLeft, Zenon
      <3> QED
        BY <1>2, <2>4, <3>1 DEF Sql
    <2> QED
      BY <1>3, <2>1, <2>2, <2>3, <2>4, Zenon DEF AtPartition
  <1>4. ASSUME NEW m \in Nodes, NEW n \in Nodes, AtEdge(rest, d, m, n) PROVE FALSE
    <2>1. s = Number(n) \/ s = Number(m)
      BY <1>1, <1>4, OneLeft, TwoLeft, Zenon DEF AtEdge
    <2>2. \A k : Number(k).sql = "number"
      BY DEF Number
    <2> QED
      BY <1>2, <2>1, <2>2
  <1>5. ASSUME NEW n \in Nodes, AtNode(rest, d, n) PROVE FALSE
    <2>1. s = [sql |-> "delete number", node |-> n]
      BY <1>1, <1>5, OneLeft, Zenon DEF AtNode
    <2> QED
      BY <1>2, <2>1
  <1> QED
    BY <1>3, <1>4, <1>5 DEF Underway

(* A call tears one thing at most while it runs, and nothing once it is done. *)
LEMMA TornByCall ==
    ASSUME NEW d, NEW b, NEW rest, Underway(rest, d, b)
    PROVE  /\ \E y : Torn(d) \subseteq Torn(b) \cup {y}
           /\ rest = << >> => Torn(d) \subseteq Torn(b)
  <1>1. ASSUME TearsNothing(d, b) PROVE Torn(d) \subseteq Torn(b)
    BY <1>1 DEF TearsNothing, Torn
  <1>2. ASSUME NEW y, TearsPartition(d, b, y) \/ TearsEdge(d, b, y)
        PROVE  Torn(d) \subseteq Torn(b) \cup {y}
    BY <1>2 DEF TearsPartition, TearsEdge, Torn
  <1>3. ASSUME NEW p \in Partitions, AtPartition(rest, d, b, p) PROVE rest # << >>
    <2>1. \/ \E x \in Snaps : rest = <<SqlTo("insert history", p, x)>>
          \/ rest = <<Sql("update to baseline", p), Sql("keep baseline", p)>>
          \/ rest = <<Sql("keep baseline", p)>>
          \/ rest = <<Sql("delete partition", p)>>
      BY <1>3 DEF AtPartition
    <2> QED
      BY <2>1, OneLeft, TwoLeft, Zenon
  <1>4. ASSUME NEW m \in Nodes, NEW n \in Nodes, AtEdge(rest, d, m, n) PROVE rest # << >>
    BY <1>4, OneLeft, TwoLeft, Zenon DEF AtEdge
  <1>5. ASSUME NEW n \in Nodes, AtNode(rest, d, n) PROVE rest # << >>
    BY <1>5, OneLeft, Zenon DEF AtNode
  <1>6. ASSUME NEW call \in StorageCalls, rest = call.rest, d = b
        PROVE  Torn(d) \subseteq Torn(b)
    BY <1>6
  <1> QED
    BY <1>1, <1>2, <1>3, <1>4, <1>5, <1>6 DEF Underway

-----------------------------------------------------------------------------
(* Every statement of every call *)

LEMMA PartitionStarts ==
    ASSUME NEW d, HasTables(d), NEW p \in Partitions, NEW x \in Snaps, NEW e, NEW rest, NEW todo,
           rest = <<todo>>, todo = SqlTo("insert history", p, x),
           e = WithRow(d, p, x) \/ (e = d /\ d.row[p] = None)
    PROVE  HasTables(e) /\ Underway(rest, e, d)
  <1>1. HasTables(e) /\ TearsPartition(e, d, p)
    <2>1. CASE e = WithRow(d, p, x)
      <3>1. RowSet(e, d, p, x)
        BY <2>1, RowChanged
      <3>2. TearsPartition(d, d, p)
        BY Reflexive
      <3>3. TearsPartition(e, d, p)
        BY <3>1, <3>2, PartitionOnly, Zenon
      <3> QED
        BY <3>1, <3>3 DEF RowSet
    <2>2. CASE e = d
      BY <2>2, Reflexive
    <2> QED
      BY <2>1, <2>2
  <1>2. e.row[p] = x \/ (e = d /\ e.row[p] = None)
    <2>1. RowSet(WithRow(d, p, x), d, p, x)
      BY RowChanged
    <2> QED
      BY <2>1 DEF RowSet
  <1>3. rest = <<SqlTo("insert history", p, x)>>
    BY Zenon
  <1>4. AtPartition(rest, e, d, p)
    BY <1>2, <1>3, Zenon DEF AtPartition
  <1> QED
    BY <1>1, <1>4, Zenon DEF Underway

LEMMA HistoryInserted ==
    ASSUME NEW d, HasTables(d), NEW b, NEW p \in Partitions, NEW x \in Snaps,
           TearsPartition(d, b, p), d.row[p] = x,
           NEW e, e = [d EXCEPT !.history[p] = Append(@, x)]
    PROVE  HasTables(e) /\ TearsNothing(e, b)
  <1>1. PICK h : h = Append(d.history[p], x)
    OBVIOUS
  <1>2. h \in Seq(Snaps) /\ h # << >> /\ h[Len(h)] = x
    BY <1>1, SnapAdded DEF HasTables
  <1>3. e = [d EXCEPT !.history[p] = h]
    BY <1>1
  <1>4. HistorySet(e, d, p, h)
    BY <1>2, <1>3, HistoryChanged
  <1>5. ~TornPartition(e, p)
    BY <1>2, <1>4, NoneAssumption DEF TornPartition, HistorySet
  <1>6. TearsNothing(e, b)
    BY <1>4, <1>5, PartitionOnly, Zenon
  <1> QED
    BY <1>4, <1>6 DEF HistorySet

LEMMA BaselineKept ==
    ASSUME NEW d, HasTables(d), NEW b, NEW p \in Partitions,
           TearsPartition(d, b, p), d.history[p] # << >>,
           IF d.row[p] = None THEN p \in TornPartitions(b) ELSE d.row[p] = d.history[p][1],
           NEW e, e = [d EXCEPT !.history[p] = SubSeq(@, 1, 1)]
    PROVE  HasTables(e) /\ TearsNothing(e, b)
  <1>1. PICK h : h = SubSeq(d.history[p], 1, 1)
    OBVIOUS
  <1>2. h \in Seq(Snaps) /\ h # << >> /\ h[Len(h)] = d.history[p][1]
    BY <1>1, FirstKept DEF HasTables
  <1>3. e = [d EXCEPT !.history[p] = h]
    BY <1>1
  <1>4. HistorySet(e, d, p, h)
    BY <1>2, <1>3, HistoryChanged
  <1>5. ~TornPartition(e, p) \/ p \in TornPartitions(b)
    BY <1>2, <1>4 DEF TornPartition, HistorySet
  <1>6. TearsNothing(e, b)
    BY <1>4, <1>5, PartitionOnly, Zenon
  <1> QED
    BY <1>4, <1>6 DEF HistorySet

LEMMA BackAtBaseline ==
    ASSUME NEW d, HasTables(d), NEW p \in Partitions, d.history[p] # << >>,
           NEW e, e = IF d.row[p] = None THEN d ELSE WithRow(d, p, d.history[p][1]),
           NEW rest, rest = <<Sql("keep baseline", p)>>
    PROVE  HasTables(e) /\ Underway(rest, e, d)
  <1>1. PICK x : x = d.history[p][1]
    OBVIOUS
  <1>2. CASE d.row[p] = None
    <2>1. e = d
      BY <1>2
    <2>2. p \in TornPartitions(d)
      BY <1>2, PartitionTorn DEF TornPartition
    <2>3. AtPartition(rest, d, d, p)
      BY <1>2, <2>2, Zenon DEF AtPartition
    <2> QED
      BY <2>1, <2>3, Reflexive, Zenon DEF Underway
  <1>3. CASE d.row[p] # None
    <2>1. RowSet(e, d, p, x)
      BY <1>1, <1>3, RowChanged
    <2>2. e.row[p] = e.history[p][1] /\ e.history[p] # << >>
      BY <1>1, <2>1 DEF RowSet
    <2>3. x \in Snaps
      BY <1>1, FirstKept DEF HasTables
    <2>4. e.row[p] # None
      BY <2>1, <2>3, NoneAssumption DEF RowSet
    <2>5. AtPartition(rest, e, d, p)
      BY <2>2, <2>4, Zenon DEF AtPartition
    <2>6. HasTables(e) /\ TearsPartition(e, d, p)
      <3>1. TearsPartition(d, d, p)
        BY Reflexive
      <3>2. TearsPartition(e, d, p)
        BY <2>1, <3>1, PartitionOnly, Zenon
      <3> QED
        BY <2>1, <3>2 DEF RowSet
    <2> QED
      BY <2>5, <2>6, Zenon DEF Underway
  <1> QED
    BY <1>2, <1>3

LEMMA PartitionDeleted ==
    ASSUME NEW d, HasTables(d), NEW b, NEW p \in Partitions,
           TearsPartition(d, b, p), d.history[p] = << >>,
           NEW e, e = WithRow(d, p, None)
    PROVE  HasTables(e) /\ TearsNothing(e, b)
  <1>1. RowSet(e, d, p, None)
    BY RowChanged
  <1>2. ~TornPartition(e, p)
    BY <1>1 DEF TornPartition, RowSet
  <1>3. TearsNothing(e, b)
    BY <1>1, <1>2, PartitionOnly, Zenon
  <1> QED
    BY <1>1, <1>3 DEF RowSet

LEMMA HistoryDeleted ==
    ASSUME NEW d, HasTables(d), NEW p \in Partitions,
           NEW e, e = [d EXCEPT !.history[p] = << >>],
           NEW rest, rest = <<Sql("delete partition", p)>>
    PROVE  HasTables(e) /\ Underway(rest, e, d)
  <1>1. << >> \in Seq(Snaps)
    BY EmptySeq
  <1>2. HistorySet(e, d, p, << >>)
    BY <1>1, HistoryChanged
  <1>3. HasTables(e) /\ TearsPartition(e, d, p)
    <2>1. TearsPartition(d, d, p)
      BY Reflexive
    <2>2. TearsPartition(e, d, p)
      BY <1>2, <2>1, PartitionOnly, Zenon
    <2> QED
      BY <1>2, <2>2 DEF HistorySet
  <1>4. e.history[p] = << >>
    BY <1>2 DEF HistorySet
  <1>5. AtPartition(rest, e, d, p)
    BY <1>4, Zenon DEF AtPartition
  <1> QED
    BY <1>3, <1>5, Zenon DEF Underway

LEMMA EdgeInserted ==
    ASSUME NEW d, HasTables(d), NEW m, NEW n,
           NEW e, e = [d EXCEPT !.edges = @ \cup {<<m, n>>}]
    PROVE  HasTables(e) /\ TearsEdge(e, d, <<m, n>>)
  <1>1. GraphSet(e, d, d.edges \cup {<<m, n>>}, d.generations)
    BY GraphChanged
  <1>2. TornEdges(e) \subseteq TornEdges(d) \cup {<<m, n>>}
    BY <1>1 DEF TornEdges, GraphSet
  <1>3. TornPartitions(e) = TornPartitions(d)
    BY <1>1, GraphOnly
  <1> QED
    BY <1>1, <1>2, <1>3 DEF GraphSet, TearsEdge

LEMMA Numbered ==
    ASSUME NEW d, HasTables(d), NEW b, NEW m, NEW n, NEW k, TearsEdge(d, b, <<m, n>>),
           NEW e, e = [d EXCEPT !.generations = @ \cup {k}]
    PROVE  /\ HasTables(e)
           /\ TearsEdge(e, b, <<m, n>>)
           /\ e.generations = d.generations \cup {k}
           /\ k = m /\ n \in d.generations => TearsNothing(e, b)
  <1>1. GraphSet(e, d, d.edges, d.generations \cup {k})
    BY GraphChanged
  <1>2. TornEdges(e) \subseteq TornEdges(d)
    BY <1>1 DEF TornEdges, GraphSet
  <1>3. TornPartitions(e) = TornPartitions(d)
    BY <1>1, GraphOnly
  <1>4. k = m /\ n \in d.generations => <<m, n>> \notin TornEdges(e)
    BY <1>1 DEF TornEdges, GraphSet
  <1> QED
    BY <1>1, <1>2, <1>3, <1>4 DEF GraphSet, TearsEdge, TearsNothing

LEMMA BatchStored ==
    ASSUME NEW d, HasTables(d), NEW g \in WholeGraphs,
           NEW e, e = [d EXCEPT !.edges = @ \cup g.edges, !.generations = @ \cup g.nodes]
    PROVE  HasTables(e) /\ TearsNothing(e, d)
  <1>1. GraphSet(e, d, d.edges \cup g.edges, d.generations \cup g.nodes)
    BY GraphChanged
  <1>2. \A x \in g.edges : x[1] \in g.nodes /\ x[2] \in g.nodes
    BY DEF WholeGraphs
  <1>3. TornEdges(e) \subseteq TornEdges(d)
    BY <1>1, <1>2 DEF TornEdges, GraphSet
  <1>4. TornPartitions(e) = TornPartitions(d)
    BY <1>1, GraphOnly
  <1> QED
    BY <1>1, <1>3, <1>4 DEF GraphSet, TearsNothing

LEMMA EdgesDeleted ==
    ASSUME NEW d, HasTables(d), NEW n,
           NEW e, e = [d EXCEPT !.edges = {x \in @ : n \notin {x[1], x[2]}}]
    PROVE  HasTables(e) /\ TearsNothing(e, d) /\ \A x \in e.edges : n \notin {x[1], x[2]}
  <1>1. GraphSet(e, d, {x \in d.edges : n \notin {x[1], x[2]}}, d.generations)
    BY GraphChanged
  <1>2. TornEdges(e) \subseteq TornEdges(d)
    BY <1>1 DEF TornEdges, GraphSet
  <1>3. TornPartitions(e) = TornPartitions(d)
    BY <1>1, GraphOnly
  <1> QED
    BY <1>1, <1>2, <1>3 DEF GraphSet, TearsNothing

LEMMA NumberDeleted ==
    ASSUME NEW d, HasTables(d), NEW b, TearsNothing(d, b),
           NEW n, \A x \in d.edges : n \notin {x[1], x[2]},
           NEW e, e = [d EXCEPT !.generations = @ \ {n}]
    PROVE  HasTables(e) /\ TearsNothing(e, b)
  <1>1. GraphSet(e, d, d.edges, d.generations \ {n})
    BY GraphChanged
  <1>2. TornEdges(e) \subseteq TornEdges(d)
    BY <1>1 DEF TornEdges, GraphSet
  <1>3. TornPartitions(e) = TornPartitions(d)
    BY <1>1, GraphOnly
  <1> QED
    BY <1>1, <1>2, <1>3 DEF GraphSet, TearsNothing

LEMMA OtherExecuted ==
    ASSUME NEW d, HasTables(d), NEW s, s.sql \in {"fill", "clear", "vacuum"}
    PROVE  HasTables(Executed(s, d)) /\ TearsNothing(Executed(s, d), d)
  <1>1. PICK e : e = Executed(s, d)
    OBVIOUS
  <1>2. e = d \/ \E F : e = [d EXCEPT !.filled = F]
    <2>1. CASE s.sql = "fill"
      <3>1. Executed(s, d) = [d EXCEPT !.filled = @ \cup {s.table}]
        BY <2>1, Zenon DEF Executed
      <3> QED
        BY <1>1, <3>1
    <2>2. CASE s.sql = "clear"
      <3>1. Executed(s, d) = [d EXCEPT !.filled = @ \ (IF s.table = "checkpoints"
                                  THEN {s.table, "time_index"} ELSE {s.table})]
        BY <2>2, Zenon DEF Executed
      <3> QED
        BY <1>1, <3>1
    <2>3. CASE s.sql = "vacuum"
      BY <1>1, <2>3, Statements
    <2> QED
      BY <2>1, <2>2, <2>3
  <1>3. /\ HasTables(e)
        /\ e.row = d.row /\ e.history = d.history
        /\ e.edges = d.edges /\ e.generations = d.generations
    BY <1>2 DEF HasTables
  <1>4. TornPartitions(e) = TornPartitions(d) /\ TornEdges(e) = TornEdges(d)
    BY <1>3 DEF TornPartitions, TornEdges
  <1> QED
    BY <1>1, <1>3, <1>4 DEF TearsNothing

(* The call goes on from e. *)
Further(rest, e, b) == HasTables(e) /\ Underway(Tail(rest), e, b)

(* The first statement of a call about a partition *)
LEMMA PartitionCallStarts ==
    ASSUME NEW d, HasTables(d), NEW rest, PartitionCall(rest),
           NEW open, ~Refused(Head(rest), d, open)
    PROVE  Further(rest, Executed(Head(rest), d), d)
  <1>1. PICK s : s = Head(rest)
    OBVIOUS
  <1>2. PICK e : e = Executed(s, d)
    OBVIOUS
  <1>3. /\ s.sql = "insert partition" => d.row[s.part] = None
        /\ s.sql = "select baseline" => d.history[s.part] # << >>
    BY <1>1, Allowed
  <1>4. ASSUME NEW p \in Partitions, NEW x \in Snaps,
               rest = <<SqlTo("insert partition", p, x), SqlTo("insert history", p, x)>>
        PROVE  Further(rest, e, d)
    <2>1. s = SqlTo("insert partition", p, x) /\ Tail(rest) = <<SqlTo("insert history", p, x)>>
      BY <1>1, <1>4, TwoLeft, Zenon
    <2>2. s.sql = "insert partition" /\ s.part = p /\ s.snap = x
      BY <2>1 DEF SqlTo
    <2>3. Executed(s, d) = WithRow(d, s.part, s.snap)
      BY <2>2, Statements, Zenon
    <2>4. e = WithRow(d, p, x)
      BY <1>2, <2>2, <2>3, Zenon
    <2>5. HasTables(e) /\ Underway(Tail(rest), e, d)
      BY <2>1, <2>4, PartitionStarts, Zenon
    <2> QED
      BY <2>5, Zenon DEF Further
  <1>5. ASSUME NEW p \in Partitions, NEW x \in Snaps,
               rest = <<SqlTo("update partition", p, x), SqlTo("insert history", p, x)>>
        PROVE  Further(rest, e, d)
    <2>1. s = SqlTo("update partition", p, x) /\ Tail(rest) = <<SqlTo("insert history", p, x)>>
      BY <1>1, <1>5, TwoLeft, Zenon
    <2>2. s.sql = "update partition" /\ s.part = p /\ s.snap = x
      BY <2>1 DEF SqlTo
    <2>3. Executed(s, d) = IF d.row[s.part] = None THEN d ELSE WithRow(d, s.part, s.snap)
      BY <2>2, Zenon DEF Executed
    <2>4. e = WithRow(d, p, x) \/ (e = d /\ d.row[p] = None)
      BY <1>2, <2>2, <2>3, Zenon
    <2>5. HasTables(e) /\ Underway(Tail(rest), e, d)
      BY <2>1, <2>4, PartitionStarts, Zenon
    <2> QED
      BY <2>5, Zenon DEF Further
  <1>6. ASSUME NEW p \in Partitions,
               rest = <<Sql("select baseline", p), Sql("update to baseline", p),
                        Sql("keep baseline", p)>>
        PROVE  Further(rest, e, d)
    <2>1. /\ s = Sql("select baseline", p)
          /\ Tail(rest) = <<Sql("update to baseline", p), Sql("keep baseline", p)>>
      BY <1>1, <1>6, ThreeLeft, Zenon
    <2>2. s.sql = "select baseline" /\ s.part = p
      BY <2>1 DEF Sql
    <2>3. e = d
      BY <1>2, <2>2, Statements, Zenon
    <2>4. d.history[p] # << >>
      BY <1>3, <2>2
    <2>5. AtPartition(Tail(rest), d, d, p)
      BY <2>1, <2>4, Zenon DEF AtPartition
    <2>6. TearsPartition(d, d, p)
      BY Reflexive
    <2> QED
      BY <2>3, <2>5, <2>6, Zenon DEF Further, Underway
  <1>7. ASSUME NEW p \in Partitions,
               rest = <<Sql("delete history", p), Sql("delete partition", p)>>
        PROVE  Further(rest, e, d)
    <2>1. s = Sql("delete history", p) /\ Tail(rest) = <<Sql("delete partition", p)>>
      BY <1>1, <1>7, TwoLeft, Zenon
    <2>2. s.sql = "delete history" /\ s.part = p
      BY <2>1 DEF Sql
    <2>3. Executed(s, d) = [d EXCEPT !.history[s.part] = << >>]
      BY <2>2, Statements, Zenon
    <2>4. e = [d EXCEPT !.history[p] = << >>]
      BY <1>2, <2>2, <2>3, Zenon
    <2>5. HasTables(e) /\ Underway(Tail(rest), e, d)
      BY <2>1, <2>4, HistoryDeleted, Zenon
    <2> QED
      BY <2>5, Zenon DEF Further
  <1>8. Further(rest, e, d)
    BY <1>4, <1>5, <1>6, <1>7, Zenon DEF PartitionCall
  <1> QED
    BY <1>1, <1>2, <1>8

(* The first statement of any other call *)
LEMMA DagCallStarts ==
    ASSUME NEW d, HasTables(d), NEW rest,
           EdgeCall(rest) \/ BatchCall(rest) \/ NodeCall(rest) \/ OtherCall(rest)
    PROVE  Further(rest, Executed(Head(rest), d), d)
  <1>1. PICK s : s = Head(rest)
    OBVIOUS
  <1>2. PICK e : e = Executed(s, d)
    OBVIOUS
  <1>3. ASSUME NEW m \in Nodes, NEW n \in Nodes,
               rest = <<[sql |-> "insert edge", edge |-> <<m, n>>], Number(n), Number(m)>>
        PROVE  Further(rest, e, d)
    <2>1. /\ s = [sql |-> "insert edge", edge |-> <<m, n>>]
          /\ Tail(rest) = <<Number(n), Number(m)>>
      BY <1>1, <1>3, ThreeLeft, Zenon
    <2>2. s.sql = "insert edge" /\ s.edge = <<m, n>>
      BY <2>1, Zenon
    <2>3. Executed(s, d) = [d EXCEPT !.edges = @ \cup {s.edge}]
      BY <2>2, Statements, Zenon
    <2>4. e = [d EXCEPT !.edges = @ \cup {<<m, n>>}]
      BY <1>2, <2>2, <2>3, Zenon
    <2>5. HasTables(e) /\ TearsEdge(e, d, <<m, n>>)
      BY <2>4, EdgeInserted, Zenon
    <2>6. AtEdge(Tail(rest), e, m, n)
      BY <2>1, Zenon DEF AtEdge
    <2> QED
      BY <2>5, <2>6, Zenon DEF Further, Underway
  <1>4. ASSUME NEW g \in WholeGraphs,
               rest = <<[sql |-> "batch", edges |-> g.edges, nodes |-> g.nodes]>>
        PROVE  Further(rest, e, d)
    <2>1. s = [sql |-> "batch", edges |-> g.edges, nodes |-> g.nodes] /\ Tail(rest) = << >>
      BY <1>1, <1>4, OneLeft, Zenon
    <2>2. s.sql = "batch" /\ s.edges = g.edges /\ s.nodes = g.nodes
      BY <2>1
    <2>3. Executed(s, d) = [d EXCEPT !.edges = @ \cup s.edges, !.generations = @ \cup s.nodes]
      BY <2>2, Statements, Zenon
    <2>4. e = [d EXCEPT !.edges = @ \cup g.edges, !.generations = @ \cup g.nodes]
      BY <1>2, <2>2, <2>3, Zenon
    <2>5. HasTables(e) /\ TearsNothing(e, d)
      BY <2>4, BatchStored, Zenon
    <2> QED
      BY <2>1, <2>5, Zenon DEF Further, Underway
  <1>5. ASSUME NEW n \in Nodes,
               rest = <<[sql |-> "delete edges", node |-> n], [sql |-> "delete number", node |-> n]>>
        PROVE  Further(rest, e, d)
    <2>1. /\ s = [sql |-> "delete edges", node |-> n]
          /\ Tail(rest) = <<[sql |-> "delete number", node |-> n]>>
      BY <1>1, <1>5, TwoLeft, Zenon
    <2>2. s.sql = "delete edges" /\ s.node = n
      BY <2>1
    <2>3. Executed(s, d) = [d EXCEPT !.edges = {x \in @ : s.node \notin {x[1], x[2]}}]
      BY <2>2, Statements, Zenon
    <2>4. e = [d EXCEPT !.edges = {x \in @ : n \notin {x[1], x[2]}}]
      BY <1>2, <2>2, <2>3, Zenon
    <2>5. HasTables(e) /\ TearsNothing(e, d) /\ \A x \in e.edges : n \notin {x[1], x[2]}
      BY <2>4, EdgesDeleted, Zenon
    <2>6. AtNode(Tail(rest), e, n)
      BY <2>1, <2>5, Zenon DEF AtNode
    <2> QED
      BY <2>5, <2>6, Zenon DEF Further, Underway
  <1>6. ASSUME NEW x, rest = <<x>>, x.sql \in {"fill", "clear", "vacuum"}
        PROVE  Further(rest, e, d)
    <2>1. s = x /\ Tail(rest) = << >>
      BY <1>1, <1>6, OneLeft, Zenon
    <2>2. s.sql \in {"fill", "clear", "vacuum"}
      BY <1>6, <2>1
    <2>3. HasTables(e) /\ TearsNothing(e, d)
      BY <1>2, <2>2, OtherExecuted
    <2> QED
      BY <2>1, <2>3, Zenon DEF Further, Underway
  <1>7. ASSUME OtherCall(rest) PROVE Further(rest, e, d)
    <2>1. ASSUME NEW table, rest = <<[sql |-> "fill", table |-> table]>>
          PROVE  Further(rest, e, d)
      <3>1. PICK x : x = [sql |-> "fill", table |-> table]
        OBVIOUS
      <3>2. rest = <<x>> /\ x.sql = "fill"
        BY <2>1, <3>1
      <3> QED
        BY <1>6, <3>2
    <2>2. ASSUME NEW table, rest = <<[sql |-> "clear", table |-> table]>>
          PROVE  Further(rest, e, d)
      <3>1. PICK x : x = [sql |-> "clear", table |-> table]
        OBVIOUS
      <3>2. rest = <<x>> /\ x.sql = "clear"
        BY <2>2, <3>1
      <3> QED
        BY <1>6, <3>2
    <2>3. ASSUME rest = <<[sql |-> "vacuum"]>> PROVE Further(rest, e, d)
      <3>1. PICK x : x = [sql |-> "vacuum"]
        OBVIOUS
      <3>2. rest = <<x>> /\ x.sql = "vacuum"
        BY <2>3, <3>1
      <3> QED
        BY <1>6, <3>2
    <2> QED
      BY <1>7, <2>1, <2>2, <2>3, Zenon DEF OtherCall
  <1>8. Further(rest, e, d)
    BY <1>3, <1>4, <1>5, <1>7, Zenon DEF EdgeCall, BatchCall, NodeCall
  <1> QED
    BY <1>1, <1>2, <1>8

(* A call that goes on after it has started *)
LEMMA PartitionCallGoesOn ==
    ASSUME NEW d, HasTables(d), NEW b, NEW p \in Partitions, NEW rest,
           TearsPartition(d, b, p), AtPartition(rest, d, b, p),
           NEW open, ~Refused(Head(rest), d, open)
    PROVE  Further(rest, Executed(Head(rest), d), b)
  <1>1. PICK s : s = Head(rest)
    OBVIOUS
  <1>2. PICK e : e = Executed(s, d)
    OBVIOUS
  <1>3. s.sql = "insert history" => d.row[s.part] # None
    BY <1>1, Allowed
  <1>4. ASSUME NEW x \in Snaps, rest = <<SqlTo("insert history", p, x)>>,
               d.row[p] = x \/ d.row[p] = None
        PROVE  Further(rest, e, b)
    <2>1. s = SqlTo("insert history", p, x) /\ Tail(rest) = << >>
      BY <1>1, <1>4, OneLeft, Zenon
    <2>2. s.sql = "insert history" /\ s.part = p /\ s.snap = x
      BY <2>1 DEF SqlTo
    <2>3. d.row[p] = x
      BY <1>3, <1>4, <2>2
    <2>4. Executed(s, d) = [d EXCEPT !.history[s.part] = Append(@, s.snap)]
      BY <2>2, Statements, Zenon
    <2>5. e = [d EXCEPT !.history[p] = Append(@, x)]
      BY <1>2, <2>2, <2>4, Zenon
    <2>6. HasTables(e) /\ TearsNothing(e, b)
      BY <2>3, <2>5, HistoryInserted, Zenon
    <2> QED
      BY <2>1, <2>6, Zenon DEF Further, Underway
  <1>5. ASSUME rest = <<Sql("update to baseline", p), Sql("keep baseline", p)>>,
               d.history[p] # << >>, d = b
        PROVE  Further(rest, e, b)
    <2>1. s = Sql("update to baseline", p) /\ Tail(rest) = <<Sql("keep baseline", p)>>
      BY <1>1, <1>5, TwoLeft, Zenon
    <2>2. s.sql = "update to baseline" /\ s.part = p
      BY <2>1 DEF Sql
    <2>3. Executed(s, d) = IF d.row[s.part] = None THEN d
                           ELSE WithRow(d, s.part, d.history[s.part][1])
      BY <2>2, Zenon DEF Executed
    <2>4. e = IF d.row[p] = None THEN d ELSE WithRow(d, p, d.history[p][1])
      BY <1>2, <2>2, <2>3
    <2>5. HasTables(e) /\ Underway(Tail(rest), e, d)
      BY <1>5, <2>1, <2>4, BackAtBaseline
    <2> QED
      BY <1>5, <2>5 DEF Further
  <1>6. ASSUME rest = <<Sql("keep baseline", p)>>, d.history[p] # << >>,
               IF d.row[p] = None THEN p \in TornPartitions(b) ELSE d.row[p] = d.history[p][1]
        PROVE  Further(rest, e, b)
    <2>1. s = Sql("keep baseline", p) /\ Tail(rest) = << >>
      BY <1>1, <1>6, OneLeft, Zenon
    <2>2. s.sql = "keep baseline" /\ s.part = p
      BY <2>1 DEF Sql
    <2>3. Executed(s, d) = [d EXCEPT !.history[s.part] = SubSeq(@, 1, 1)]
      BY <2>2, Statements, Zenon
    <2>4. e = [d EXCEPT !.history[p] = SubSeq(@, 1, 1)]
      BY <1>2, <2>2, <2>3, Zenon
    <2>5. HasTables(e) /\ TearsNothing(e, b)
      BY <1>6, <2>4, BaselineKept, Zenon
    <2> QED
      BY <2>1, <2>5, Zenon DEF Further, Underway
  <1>7. ASSUME rest = <<Sql("delete partition", p)>>, d.history[p] = << >>
        PROVE  Further(rest, e, b)
    <2>1. s = Sql("delete partition", p) /\ Tail(rest) = << >>
      BY <1>1, <1>7, OneLeft, Zenon
    <2>2. s.sql = "delete partition" /\ s.part = p
      BY <2>1 DEF Sql
    <2>3. Executed(s, d) = WithRow(d, s.part, None)
      BY <2>2, Statements, Zenon
    <2>4. e = WithRow(d, p, None)
      BY <1>2, <2>2, <2>3, Zenon
    <2>5. HasTables(e) /\ TearsNothing(e, b)
      BY <1>7, <2>4, PartitionDeleted, Zenon
    <2> QED
      BY <2>1, <2>5, Zenon DEF Further, Underway
  <1>8. Further(rest, e, b)
    BY <1>4, <1>5, <1>6, <1>7, Zenon DEF AtPartition
  <1> QED
    BY <1>1, <1>2, <1>8

LEMMA DagCallGoesOn ==
    ASSUME NEW d, HasTables(d), NEW b, NEW rest,
           \/ \E m, n \in Nodes : TearsEdge(d, b, <<m, n>>) /\ AtEdge(rest, d, m, n)
           \/ \E n \in Nodes : TearsNothing(d, b) /\ AtNode(rest, d, n)
    PROVE  Further(rest, Executed(Head(rest), d), b)
  <1>1. PICK s : s = Head(rest)
    OBVIOUS
  <1>2. PICK e : e = Executed(s, d)
    OBVIOUS
  <1>3. ASSUME NEW k, s = Number(k) PROVE e = [d EXCEPT !.generations = @ \cup {k}]
    <2>1. s.sql = "number" /\ s.node = k
      BY <1>3 DEF Number
    <2>2. Executed(s, d) = [d EXCEPT !.generations = @ \cup {s.node}]
      BY <2>1, Statements, Zenon
    <2> QED
      BY <1>2, <2>1, <2>2, Zenon
  <1>4. ASSUME NEW m \in Nodes, NEW n \in Nodes, TearsEdge(d, b, <<m, n>>),
               rest = <<Number(n), Number(m)>>
        PROVE  Further(rest, e, b)
    <2>1. s = Number(n) /\ Tail(rest) = <<Number(m)>>
      BY <1>1, <1>4, TwoLeft, Zenon
    <2>2. e = [d EXCEPT !.generations = @ \cup {n}]
      BY <1>3, <2>1
    <2>3. HasTables(e) /\ TearsEdge(e, b, <<m, n>>) /\ e.generations = d.generations \cup {n}
      BY <1>4, <2>2, Numbered
    <2>4. n \in e.generations
      BY <2>3
    <2>5. AtEdge(Tail(rest), e, m, n)
      BY <2>1, <2>4, Zenon DEF AtEdge
    <2> QED
      BY <2>3, <2>5, Zenon DEF Further, Underway
  <1>5. ASSUME NEW m \in Nodes, NEW n \in Nodes, TearsEdge(d, b, <<m, n>>),
               rest = <<Number(m)>>, n \in d.generations
        PROVE  Further(rest, e, b)
    <2>1. s = Number(m) /\ Tail(rest) = << >>
      BY <1>1, <1>5, OneLeft, Zenon
    <2>2. e = [d EXCEPT !.generations = @ \cup {m}]
      BY <1>3, <2>1
    <2>3. HasTables(e) /\ TearsNothing(e, b)
      BY <1>5, <2>2, Numbered
    <2> QED
      BY <2>1, <2>3, Zenon DEF Further, Underway
  <1>6. ASSUME NEW n \in Nodes, TearsNothing(d, b), AtNode(rest, d, n)
        PROVE  Further(rest, e, b)
    <2>1. s = [sql |-> "delete number", node |-> n] /\ Tail(rest) = << >>
      BY <1>1, <1>6, OneLeft, Zenon DEF AtNode
    <2>2. s.sql = "delete number" /\ s.node = n
      BY <2>1
    <2>3. Executed(s, d) = [d EXCEPT !.generations = @ \ {s.node}]
      BY <2>2, Statements, Zenon
    <2>4. e = [d EXCEPT !.generations = @ \ {n}]
      BY <1>2, <2>2, <2>3, Zenon
    <2>5. HasTables(e) /\ TearsNothing(e, b)
      BY <1>6, <2>4, NumberDeleted, Zenon DEF AtNode
    <2> QED
      BY <2>1, <2>5, Zenon DEF Further, Underway
  <1>7. Further(rest, e, b)
    BY <1>4, <1>5, <1>6, Zenon DEF AtEdge
  <1> QED
    BY <1>1, <1>2, <1>7

(* One statement of a call takes it one further. *)
LEMMA StatementExecuted ==
    ASSUME NEW d, HasTables(d), NEW b, NEW rest, Underway(rest, d, b), rest # << >>,
           NEW open, ~Refused(Head(rest), d, open)
    PROVE  Further(rest, Executed(Head(rest), d), b)
  <1>1. ASSUME NEW call \in StorageCalls, rest = call.rest, d = b
        PROVE  Further(rest, Executed(Head(rest), d), b)
    <2>1. \/ PartitionCall(rest) \/ EdgeCall(rest) \/ BatchCall(rest)
          \/ NodeCall(rest) \/ OtherCall(rest)
      BY <1>1, CallForms
    <2>2. Further(rest, Executed(Head(rest), d), d)
      BY <2>1, PartitionCallStarts, DagCallStarts, Zenon
    <2> QED
      BY <1>1, <2>2
  <1>2. ASSUME NEW p \in Partitions, TearsPartition(d, b, p), AtPartition(rest, d, b, p)
        PROVE  Further(rest, Executed(Head(rest), d), b)
    BY <1>2, PartitionCallGoesOn, Zenon
  <1>3. ASSUME \/ \E m, n \in Nodes : TearsEdge(d, b, <<m, n>>) /\ AtEdge(rest, d, m, n)
               \/ \E n \in Nodes : TearsNothing(d, b) /\ AtNode(rest, d, n)
        PROVE  Further(rest, Executed(Head(rest), d), b)
    BY <1>3, DagCallGoesOn, Zenon
  <1> QED
    BY <1>1, <1>2, <1>3, Zenon DEF Underway

-----------------------------------------------------------------------------
(* Items *)

LEMMA CallsAreCalls == ASSUME NEW call \in StorageCalls PROVE call = Call(call.rest)
  <1>1. \A s : Call(s) = Call(Call(s).rest)
    BY DEF Call
  <1>2. ASSUME NEW p, NEW x,
               \/ call = CreatePartition(p, x) \/ call = UpdatePointer(p, x)
               \/ call = ResetPartitionToBaseline(p) \/ call = DeletePartition(p)
        PROVE  call = Call(call.rest)
    BY <1>1, <1>2, Zenon DEF CreatePartition, UpdatePointer, ResetPartitionToBaseline, DeletePartition
  <1>3. ASSUME NEW m, NEW n,
               call = StoreDagEdge(m, n) \/ call = StoreDagBatch(m, n) \/ call = DeleteDagNode(n)
        PROVE  call = Call(call.rest)
    BY <1>1, <1>3, Zenon DEF StoreDagEdge, StoreDagBatch, DeleteDagNode
  <1>4. ASSUME NEW table,
               call = Store(table) \/ call = Call(<<[sql |-> "clear", table |-> table]>>)
        PROVE  call = Call(call.rest)
    BY <1>1, <1>4, Zenon DEF Store
  <1>5. ASSUME call = RunMaintenance PROVE call = Call(call.rest)
    BY <1>1, <1>5, Zenon DEF RunMaintenance
  <1>6. call \in PartitionCalls => call = Call(call.rest)
    BY <1>2 DEF PartitionCalls
  <1>7. call \in DagCalls => call = Call(call.rest)
    BY <1>3 DEF DagCalls
  <1>8. call \in OtherCalls => call = Call(call.rest)
    BY <1>4, <1>5 DEF OtherCalls
  <1> QED
    BY <1>6, <1>7, <1>8 DEF StorageCalls

(* What is entered is a storage call or the closure of a unit. *)
LEMMA ItemForms ==
    ASSUME NEW item \in Items
    PROVE  /\ item.do = "call" => \E call \in StorageCalls : item.rest = call.rest
           /\ item.do \in Units => item.rest \in Seq(Items)
  <1>1. CASE item = Fail
    BY <1>1 DEF Fail, Units
  <1>2. ASSUME NEW call \in StorageCalls, item = call \/ item = Ignored(call)
        PROVE  item.do = "call" /\ item.rest = call.rest
    <2>1. call = Call(call.rest)
      BY CallsAreCalls
    <2> QED
      BY <1>2, <2>1 DEF Call, Ignored
  <1>3. CASE item.do \in Units /\ item.rest \in Seq(Items)
    BY <1>3 DEF Units
  <1>4. \/ item = Fail
        \/ \E call \in StorageCalls : item = call \/ item = Ignored(call)
        \/ item.do \in Units /\ item.rest \in Seq(Items)
    BY ItemsAssumption
  <1>5. "call" \notin Units
    BY DEF Units
  <1> QED
    BY <1>1, <1>2, <1>3, <1>4, <1>5

LEMMA ItemTaken ==
    ASSUME NEW rest \in Seq(Items), rest # << >>
    PROVE  Head(rest) \in Items /\ Tail(rest) \in Seq(Items)
  OBVIOUS

-----------------------------------------------------------------------------
(* Frames that hold items *)

Stocked(fs) == \A i \in 1..Len(fs) : IsItemFrame(fs[i], i)

LEMMA TakenFrames ==
    ASSUME NEW fs, Nested(fs), fs # << >>, Stocked(fs), NEW r,
           NEW gs, gs = [fs EXCEPT ![Len(fs)].rest = r],
           fs[Len(fs)].do = "call" \/ r \in Seq(Items)
    PROVE  SameShape(gs, fs) /\ Stocked(gs) /\ gs[Len(gs)].rest = r
  <1>1. PICK n \in Nat : n = Len(fs) /\ n > 0
    BY SequenceParts DEF Nested
  <1>2. SameShape(gs, fs)
    BY TakenKeeps
  <1>3. DOMAIN fs = 1..n
    BY <1>1, SequenceParts DEF Nested
  <1>4. \A i \in 1..n : i # n => gs[i] = fs[i]
    BY <1>1, <1>3
  <1>5. gs[n] = [fs[n] EXCEPT !.rest = r]
    BY <1>1, <1>3
  <1>6. "rest" \in DOMAIN fs[n]
    BY <1>1 DEF Stocked, IsItemFrame
  <1>7. DOMAIN gs[n] = DOMAIN fs[n] /\ gs[n].rest = r
    BY <1>5, <1>6
  <1>8. gs[n].do = fs[n].do /\ gs[n].depth = fs[n].depth /\ Len(gs) = n
    BY <1>1, <1>2 DEF SameShape
  <1>9. fs[n].do # "call" => fs[n].depth = n - 1
    BY <1>1 DEF Stocked, IsItemFrame
  <1>10. IsItemFrame(gs[n], n)
    BY <1>1, <1>6, <1>7, <1>8, <1>9 DEF IsItemFrame
  <1>11. Stocked(gs)
    BY <1>1, <1>4, <1>8, <1>10 DEF Stocked
  <1> QED
    BY <1>2, <1>7, <1>8, <1>11

LEMMA PushedFrames ==
    ASSUME NEW gs, Nested(gs), Stocked(gs), NEW x, IsItemFrame(x, Len(gs) + 1)
    PROVE  Stocked(Append(gs, x))
  <1>1. PICK n \in Nat : n = Len(gs)
    BY SequenceParts DEF Nested
  <1>2. PICK hs : hs = Append(gs, x)
    OBVIOUS
  <1>3. Len(hs) = n + 1 /\ hs[n + 1] = x /\ \A i \in 1..n : hs[i] = gs[i]
    BY <1>1, <1>2, Pushed DEF Nested
  <1>4. ASSUME NEW i \in 1..(n + 1) PROVE IsItemFrame(hs[i], i)
    <2>1. CASE i = n + 1
      BY <1>1, <1>3, <2>1
    <2>2. CASE i \in 1..n
      BY <1>1, <1>3, <2>2 DEF Stocked
    <2> QED
      BY <2>1, <2>2
  <1> QED
    BY <1>2, <1>3, <1>4 DEF Stocked

LEMMA PoppedFrames ==
    ASSUME NEW fs, Nested(fs), Stocked(fs), Len(fs) > 1,
           NEW gs, gs = SubSeq(fs, 1, Len(fs) - 1)
    PROVE  /\ Stocked(gs)
           /\ \A i \in 1..(Len(fs) - 1) : gs[i] = fs[i]
           /\ gs[Len(gs)].do # "call"
  <1>1. PICK n \in Nat : n = Len(fs) /\ n > 1
    BY SequenceParts DEF Nested
  <1>2. Len(gs) = n - 1 /\ \A i \in 1..(n - 1) : gs[i] = fs[i]
    BY <1>1, Shortened DEF Nested
  <1>3. \A i \in 1..(n - 1) : fs[i].do # "call"
    BY <1>1 DEF Nested
  <1>4. n - 1 \in 1..(n - 1)
    BY <1>1
  <1>5. \A i \in 1..(n - 1) : IsItemFrame(fs[i], i)
    BY <1>1 DEF Stocked
  <1> QED
    BY <1>1, <1>2, <1>3, <1>4, <1>5 DEF Stocked

LEMMA EnteredFrame ==
    ASSUME NEW item \in Items, item.do \in {"call"} \cup Units, NEW depth, NEW before,
           NEW n \in Nat, item.do # "call" => depth = n
    PROVE  IsItemFrame(Frame(item, depth, before), n + 1)
  <1>1. item.do # "call" => item.rest \in Seq(Items)
    BY ItemForms
  <1> QED
    BY <1>1 DEF Frame, IsItemFrame

-----------------------------------------------------------------------------
(* How much is torn *)

LEMMA TornMore ==
    ASSUME NEW k \in Nat, NEW d, HasTables(d), NEW b, TornAtMost(b, k),
           NEW rest, Underway(rest, d, b)
    PROVE  TornAtMost(d, k + 1) /\ (rest = << >> => TornAtMost(d, k))
  <1>1. IsFiniteSet(Torn(b)) /\ Cardinality(Torn(b)) \in Nat /\ Cardinality(Torn(b)) <= k
    BY FS_CardinalityType DEF TornAtMost
  <1>2. PICK y : Torn(d) \subseteq Torn(b) \cup {y}
    BY TornByCall
  <1>3. /\ IsFiniteSet(Torn(b) \cup {y})
        /\ Cardinality(Torn(b) \cup {y}) = IF y \in Torn(b) THEN Cardinality(Torn(b))
                                           ELSE Cardinality(Torn(b)) + 1
    BY <1>1, FS_AddElement
  <1>4. /\ Cardinality(Torn(b) \cup {y}) \in Nat
        /\ Cardinality(Torn(b) \cup {y}) <= k + 1
    BY <1>1, <1>3
  <1>5. IsFiniteSet(Torn(d)) /\ Cardinality(Torn(d)) <= Cardinality(Torn(b) \cup {y})
    BY <1>2, <1>3, FS_Subset
  <1>6. Cardinality(Torn(d)) \in Nat
    BY <1>5, FS_CardinalityType
  <1>7. Cardinality(Torn(d)) <= k + 1
    BY <1>4, <1>5, <1>6
  <1>8. ASSUME rest = << >> PROVE Cardinality(Torn(d)) <= k
    <2>1. Torn(d) \subseteq Torn(b)
      BY <1>8, TornByCall
    <2>2. Cardinality(Torn(d)) <= Cardinality(Torn(b))
      BY <1>1, <2>1, FS_Subset
    <2> QED
      BY <1>1, <1>6, <2>2
  <1> QED
    BY <1>5, <1>7, <1>8 DEF TornAtMost

LEMMA TornOneMore ==
    ASSUME NEW k \in Nat, NEW d, TornAtMost(d, k) PROVE TornAtMost(d, k + 1)
  <1>1. Cardinality(Torn(d)) \in Nat
    BY FS_CardinalityType DEF TornAtMost
  <1> QED
    BY <1>1 DEF TornAtMost

(* The view is torn by crashes, and by the call that runs. *)
LEMMA ViewTorn == ASSUME CallInv, TablesInv PROVE TornAtMost(view, crashes + 1)
  <1>1. CASE Calling
    BY <1>1, TornMore DEF CallInv, TablesInv
  <1>2. CASE ~Calling
    BY <1>2, TornOneMore DEF TablesInv
  <1> QED
    BY <1>1, <1>2

-----------------------------------------------------------------------------
(* Steps of one thread *)

LEMMA ItemsKept ==
    ASSUME ItemsInv, NEW t \in Threads, NEW hs, LeftWith(t, hs), Stocked(hs)
    PROVE  ItemsInv'
  BY DEF ItemsInv, LeftWith, Stocked, IsItemFrame

(* A thread that is in no call and no unit starts or ends a request. *)
LEMMA OutsiderData ==
    ASSUME IInv, DataInv, NEW t \in Threads, owner # t, NEW hs, LeftWith(t, hs), Stocked(hs),
           UNCHANGED <<disk, view, stack, owner, rolledBack, crashes>>
    PROVE  DataInv'
  <1>1. owner # None => thread'[owner] = thread[owner]
    BY DEF LeftWith, IInv, MutexInv
  <1>2. (Calling' <=> Calling) /\ (Calling => Top(owner)' = Top(owner))
    BY <1>1 DEF Calling, Top
  <1>3. ItemsInv'
    BY ItemsKept DEF DataInv
  <1>4. CallInv'
    BY <1>1, <1>2 DEF DataInv, CallInv, Calling
  <1>5. TablesInv'
    BY <1>2 DEF DataInv, TablesInv
  <1>6. RestoreInv'
    BY <1>1 DEF DataInv, RestoreInv
  <1> QED
    BY <1>3, <1>4, <1>5, <1>6 DEF DataInv

LEMMA CallingAfter ==
    ASSUME NEW t \in Threads, NEW hs, LeftWith(t, hs), owner' = t
    PROVE  Calling' <=> hs[Len(hs)].do = "call"
  BY NoneAssumption DEF Calling, Top, LeftWith

-----------------------------------------------------------------------------
(* Entering *)

(* What both ways of entering share: the items, and the frames underneath. *)
LEMMA EnterData ==
    ASSUME IInv, DataInv, NEW t \in Threads, Ready(t, {"request"} \cup Units), MayLock(t),
           NEW item, item = Head(Top(t).rest), item.do \in {"call"} \cup Units,
           NEW depth, item.do # "call" => depth = Top(t).depth + 1,
           NEW x, x = Frame(item, depth, view),
           NEW hs, hs = Append(Taken(t), x), LeftWith(t, hs), OnTop(hs, thread[t].frames, x)
    PROVE  /\ ItemsInv'
           /\ item \in Items
           /\ ~Calling
           /\ Len(thread[t].frames) \in Nat
           /\ Top(t).depth = Len(thread[t].frames) - 1
           /\ \A i \in 1..Len(thread[t].frames) : hs[i].before = thread[t].frames[i].before
  <1>1. PICK fs : fs = thread[t].frames
    OBVIOUS
  <1>2. PICK n \in Nat : n = Len(fs) /\ n > 0
    BY <1>1, BusyFrames DEF Ready, IInv
  <1>3. Nested(fs) /\ fs # << >> /\ Top(t) = fs[n] /\ Top(t).rest # << >> /\ fs[n].do # "call"
    BY <1>1, <1>2, BusyFrames DEF Ready, Busy, Top, IInv, Units
  <1>4. Stocked(fs)
    BY <1>1 DEF DataInv, ItemsInv, Stocked
  <1>5. Top(t).rest \in Seq(Items) /\ Top(t).depth = n - 1
    BY <1>2, <1>3, <1>4 DEF Stocked, IsItemFrame
  <1>6. item \in Items /\ Tail(Top(t).rest) \in Seq(Items)
    BY <1>3, <1>5, ItemTaken
  <1>7. PICK gs : gs = Taken(t)
    OBVIOUS
  <1>8. gs = [fs EXCEPT ![Len(fs)].rest = Tail(Top(t).rest)]
    BY <1>1, <1>7 DEF Taken, Top
  <1>9. SameShape(gs, fs) /\ Stocked(gs)
    BY <1>3, <1>4, <1>6, <1>8, TakenFrames
  <1>10. Nested(gs) /\ Len(gs) = n /\ \A i \in 1..n : gs[i].before = fs[i].before
    BY <1>2, <1>9 DEF SameShape
  <1>11. item.do # "call" => depth = n
    BY <1>2, <1>5
  <1>12. IsItemFrame(x, Len(gs) + 1)
    BY <1>6, <1>10, <1>11, EnteredFrame
  <1>13. Stocked(hs)
    BY <1>7, <1>9, <1>10, <1>12, PushedFrames
  <1>14. ItemsInv'
    BY <1>13, ItemsKept DEF DataInv
  <1>15. \A i \in 1..n : hs[i] = gs[i]
    BY <1>7, <1>10, Pushed DEF Nested
  <1>16. ~Calling
    BY <1>1, <1>2, <1>3 DEF MayLock, Calling, Top
  <1> QED
    BY <1>1, <1>2, <1>5, <1>6, <1>10, <1>14, <1>15, <1>16

LEMMA EnterCallData ==
    ASSUME IInv, DataInv, NEW t \in Threads, EnterCall(t) PROVE DataInv'
  <1>1. PICK item : item = Head(Top(t).rest)
    OBVIOUS
  <1>2. PICK x : x = Frame(item, Top(t).depth, view)
    OBVIOUS
  <1>3. PICK hs : hs = Append(Taken(t), x)
    OBVIOUS
  <1>4. /\ MutexInv /\ Ready(t, {"request"} \cup Units) /\ MayLock(t)
        /\ item.do = "call"
        /\ owner' = t /\ thread' = [thread EXCEPT ![t].frames = hs]
        /\ UNCHANGED <<disk, view, stack, rolledBack, crashes>>
    BY <1>1, <1>2, <1>3 DEF EnterCall, IInv
  <1>5. Top(t).depth \in Nat
    BY <1>4, BusyFrames DEF Ready
  <1>6. IsFrame(x) /\ Above(Top(t), x) /\ x.do = "call" /\ x.rest = item.rest /\ x.before = view
    BY <1>2, <1>4, <1>5 DEF IsFrame, Frame, Above
  <1>7. LeftWith(t, hs) /\ OnTop(hs, thread[t].frames, x)
    BY <1>3, <1>4, <1>6, EnterKeeps
  <1>8. /\ ItemsInv' /\ item \in Items /\ ~Calling
        /\ Len(thread[t].frames) \in Nat
        /\ Top(t).depth = Len(thread[t].frames) - 1
        /\ \A i \in 1..Len(thread[t].frames) : hs[i].before = thread[t].frames[i].before
    BY <1>1, <1>2, <1>3, <1>4, <1>7, EnterData
  <1>9. Top(owner)' = x /\ thread'[t].frames = hs
    BY <1>4, <1>7 DEF OnTop, LeftWith, Top
  <1>10. \E call \in StorageCalls : item.rest = call.rest
    BY <1>4, <1>8, ItemForms
  <1>11. Underway(item.rest, view, view)
    BY <1>10, Zenon DEF Underway
  <1>12. TornAtMost(view, crashes)
    BY <1>8 DEF DataInv, TablesInv
  <1>13. CallInv'
    <2>1. Top(owner)'.rest = item.rest /\ Top(owner)'.before = view /\ view' = view
      BY <1>4, <1>6, <1>9
    <2>2. crashes' = crashes
      BY <1>4
    <2> QED
      BY <1>11, <1>12, <2>1, <2>2 DEF CallInv
  <1>14. TablesInv'
    <2>1. Calling'
      BY <1>4, <1>6, <1>7, CallingAfter DEF OnTop
    <2> QED
      BY <1>4, <2>1 DEF DataInv, TablesInv
  <1>15. RestoreInv'
    <2> SUFFICES ASSUME rolledBack = 0, NEW i \in 1..Len(stack)
                 PROVE  stack[i] = hs[i + 1].before
      BY <1>4, <1>9 DEF RestoreInv
    <2>1. Len(stack) = Top(t).depth
      <3>1. OpenUnits = Top(t).depth
        BY <1>3, <1>4, <1>6, EnterKeeps
      <3> QED
        BY <1>5, <3>1 DEF IInv, StackInv, SavepointsCounted
    <2>2. i + 1 \in 1..Len(thread[t].frames) /\ Len(thread[t].frames) > 1
      BY <1>5, <1>8, <2>1
    <2>3. owner = t /\ t # None
      BY <1>4, <2>2, NoneAssumption DEF MutexInv
    <2>4. stack[i] = thread[t].frames[i + 1].before
      BY <2>3 DEF DataInv, RestoreInv
    <2> QED
      BY <1>8, <2>2, <2>4
  <1> QED
    BY <1>8, <1>13, <1>14, <1>15 DEF DataInv

LEMMA EnterUnitData ==
    ASSUME IInv, DataInv, NEW t \in Threads, EnterUnit(t) PROVE DataInv'
  <1>1. PICK item : item = Head(Top(t).rest)
    OBVIOUS
  <1>2. PICK x : x = Frame(item, Top(t).depth + 1, view)
    OBVIOUS
  <1>3. PICK hs : hs = Append(Taken(t), x)
    OBVIOUS
  <1>4. /\ MutexInv /\ Ready(t, {"request"} \cup Units) /\ MayLock(t)
        /\ item.do \in Units
        /\ owner' = t /\ thread' = [thread EXCEPT ![t].frames = hs]
        /\ stack' = Append(stack, view)
        /\ UNCHANGED <<disk, view, rolledBack, crashes>>
    BY <1>1, <1>2, <1>3 DEF EnterUnit, IInv
  <1>5. Top(t).depth \in Nat
    BY <1>4, BusyFrames DEF Ready
  <1>6. IsFrame(x) /\ Above(Top(t), x) /\ x.do \in Units /\ x.do # "call" /\ x.before = view
    BY <1>2, <1>4, <1>5 DEF IsFrame, Frame, Above, Units
  <1>7. LeftWith(t, hs) /\ OnTop(hs, thread[t].frames, x)
    BY <1>3, <1>4, <1>6, EnterKeeps
  <1>8. /\ ItemsInv' /\ item \in Items /\ ~Calling
        /\ Len(thread[t].frames) \in Nat
        /\ Top(t).depth = Len(thread[t].frames) - 1
        /\ \A i \in 1..Len(thread[t].frames) : hs[i].before = thread[t].frames[i].before
    BY <1>1, <1>2, <1>3, <1>4, <1>7, EnterData
  <1>9. ~Calling'
    BY <1>4, <1>6, <1>7, CallingAfter DEF OnTop
  <1>10. PICK k \in Nat : k = Len(stack)
    BY SequenceParts DEF IInv, StackInv
  <1>11. Len(stack') = k + 1 /\ stack'[k + 1] = view /\ \A i \in 1..k : stack'[i] = stack[i]
    BY <1>4, <1>10, Pushed DEF IInv, StackInv
  <1>12. TablesInv'
    <2>1. TornAtMost(view, crashes)
      BY <1>8 DEF DataInv, TablesInv
    <2>2. TornAtMost(disk, crashes)
      BY <2>1 DEF DataInv, TablesInv, IInv, StackInv
    <2>3. \A i \in 1..(k + 1) : TornAtMost(stack'[i], crashes)
      <3> SUFFICES ASSUME NEW i \in 1..(k + 1) PROVE TornAtMost(stack'[i], crashes)
        OBVIOUS
      <3>1. CASE i = k + 1
        BY <1>11, <2>1, <3>1
      <3>2. CASE i \in 1..k
        BY <1>10, <1>11, <3>2 DEF DataInv, TablesInv
      <3> QED
        BY <3>1, <3>2
    <2> QED
      BY <1>4, <1>11, <2>1, <2>2, <2>3 DEF DataInv, TablesInv
  <1>13. RestoreInv'
    <2> SUFFICES ASSUME rolledBack = 0, NEW i \in 1..(k + 1)
                 PROVE  stack'[i] = hs[i + 1].before
      BY <1>4, <1>7, <1>11 DEF RestoreInv, LeftWith
    <2>1. k = Top(t).depth
      <3>1. OpenUnits = Top(t).depth
        BY <1>3, <1>4, <1>6, EnterKeeps
      <3> QED
        BY <1>5, <1>10, <3>1 DEF IInv, StackInv, SavepointsCounted
    <2>2. CASE i = k + 1
      <3>1. hs[k + 2] = x
        BY <1>7, <1>8, <2>1 DEF OnTop
      <3> QED
        BY <1>6, <1>11, <2>2, <3>1
    <2>3. CASE i \in 1..k
      <3>1. i + 1 \in 1..Len(thread[t].frames) /\ Len(thread[t].frames) > 1
        BY <1>8, <2>1, <2>3
      <3>2. owner = t /\ t # None
        BY <1>4, <3>1, NoneAssumption DEF MutexInv
      <3>3. stack[i] = thread[t].frames[i + 1].before
        BY <1>10, <2>3, <3>2 DEF DataInv, RestoreInv
      <3> QED
        BY <1>8, <1>11, <2>3, <3>1, <3>3
    <2> QED
      BY <2>2, <2>3
  <1> QED
    BY <1>8, <1>9, <1>12, <1>13 DEF DataInv, CallInv

-----------------------------------------------------------------------------
(* Steps of the frame on top *)

(* A thread in a call or a unit owns the mutex; its units are the frames    *)
(* above the request, but for a call on top.                                *)
LEMMA TopDepth ==
    ASSUME IInv, DataInv, NEW t \in Threads, Busy(t), Top(t).do # "request"
    PROVE  /\ owner = t /\ t # None
           /\ Len(thread[t].frames) \in Nat /\ Len(thread[t].frames) > 1
           /\ Top(t).depth \in Nat /\ Top(t).depth < Len(thread[t].frames)
           /\ Top(t).do \in Units => Top(t).depth = Len(thread[t].frames) - 1
           /\ OpenUnits = Top(t).depth
           /\ Nested(thread[t].frames) /\ Stocked(thread[t].frames) /\ thread[t].frames # << >>
  <1>1. PICK fs : fs = thread[t].frames
    OBVIOUS
  <1>2. PICK n \in Nat : n = Len(fs) /\ n > 0
    BY <1>1, BusyFrames DEF IInv
  <1>3. Nested(fs) /\ fs # << >> /\ Top(t) = fs[n] /\ fs[n].depth \in Nat
    BY <1>1, <1>2, BusyFrames DEF Busy, Top, IInv
  <1>4. n > 1 /\ owner = t
    BY <1>1, <1>2, BusyFrames, Counts DEF IInv
  <1>5. Stocked(fs)
    BY <1>1 DEF DataInv, ItemsInv, Stocked
  <1>6. ASSUME fs[n].do \in Units PROVE fs[n].depth = n - 1
    BY <1>2, <1>5, <1>6 DEF Stocked, IsItemFrame, Units
  <1>7. ASSUME fs[n].do = "call" PROVE fs[n].depth = n - 2
    <2>1. Above(fs[n - 1], fs[n]) /\ fs[n - 1].do # "call"
      BY <1>2, <1>3, <1>4 DEF Nested
    <2>2. fs[n].depth = fs[n - 1].depth
      BY <1>7, <2>1 DEF Above, Units
    <2>3. fs[n - 1].depth = (n - 1) - 1
      BY <1>2, <1>4, <1>5, <2>1 DEF Stocked, IsItemFrame
    <2> QED
      BY <1>2, <2>2, <2>3
  <1>8. fs[n].do \in Units \/ fs[n].do = "call"
    BY <1>2, <1>3, <1>4 DEF Nested, Above
  <1>9. OpenUnits = Top(t).depth
    BY <1>4, NoneAssumption DEF OpenUnits
  <1>10. fs[n].depth < n
    BY <1>2, <1>6, <1>7, <1>8
  <1> QED
    BY <1>1, <1>2, <1>3, <1>4, <1>5, <1>6, <1>9, <1>10, NoneAssumption

(* The savepoints stay what the units found. *)
LEMMA RestoreKept ==
    ASSUME IInv, DataInv, NEW t \in Threads, Busy(t), Top(t).do # "request",
           NEW gs, SameShape(gs, thread[t].frames), LeftWith(t, gs),
           UNCHANGED <<stack, owner, rolledBack>>
    PROVE  RestoreInv'
  <1>1. PICK fs : fs = thread[t].frames
    OBVIOUS
  <1>2. /\ owner = t /\ t # None
        /\ Len(fs) \in Nat /\ Top(t).depth \in Nat /\ Top(t).depth < Len(fs)
        /\ OpenUnits = Top(t).depth
    BY <1>1, TopDepth
  <1> SUFFICES ASSUME rolledBack = 0, NEW i \in 1..Len(stack) PROVE stack[i] = gs[i + 1].before
    BY <1>2 DEF RestoreInv, LeftWith
  <1>3. Len(stack) = Top(t).depth
    BY <1>2 DEF IInv, StackInv, SavepointsCounted
  <1>4. i + 1 \in 1..Len(fs)
    BY <1>2, <1>3
  <1>5. gs[i + 1].before = fs[i + 1].before
    BY <1>1, <1>4 DEF SameShape
  <1>6. stack[i] = fs[i + 1].before
    BY <1>1, <1>2 DEF DataInv, RestoreInv
  <1> QED
    BY <1>5, <1>6

LEMMA FailUnitData ==
    ASSUME IInv, DataInv, NEW t \in Threads, FailUnit(t) PROVE DataInv'
  <1>1. PICK fs : fs = thread[t].frames
    OBVIOUS
  <1>2. /\ MutexInv /\ Busy(t) /\ Top(t).do # "request" /\ Top(t).do # "call"
        /\ thread' = [thread EXCEPT ![t].failed = TRUE]
        /\ UNCHANGED <<disk, view, stack, owner, rolledBack, crashes>>
    BY DEF FailUnit, Ready, IInv, Units
  <1>3. owner = t /\ t # None /\ Nested(fs) /\ Stocked(fs)
    BY <1>1, <1>2, TopDepth
  <1>4. SameShape(fs, fs) /\ LeftWith(t, fs)
    BY <1>1, <1>2, <1>3, OneThreadChanged DEF SameShape
  <1>5. ItemsInv'
    BY <1>3, <1>4, ItemsKept DEF DataInv
  <1>6. ~Calling /\ ~Calling'
    BY <1>1, <1>2, <1>3, <1>4, CallingAfter DEF Calling, Top
  <1>7. TablesInv'
    BY <1>2, <1>6 DEF DataInv, TablesInv
  <1>8. RestoreInv'
    BY <1>1, <1>2, <1>4, RestoreKept
  <1> QED
    BY <1>5, <1>6, <1>7, <1>8 DEF DataInv, CallInv

LEMMA StatementData ==
    ASSUME IInv, DataInv, NEW t \in Threads, Statement(t) PROVE DataInv'
  <1>1. PICK fs : fs = thread[t].frames
    OBVIOUS
  <1>2. PICK s : s = Head(Top(t).rest)
    OBVIOUS
  <1>3. PICK b : b = Top(t).before
    OBVIOUS
  <1>4. /\ MutexInv /\ Busy(t) /\ Top(t).do = "call" /\ Top(t).do # "request"
        /\ ~thread[t].failed /\ Top(t).rest # << >>
        /\ UNCHANGED <<stack, owner, rolledBack, crashes>>
    BY DEF Statement, Ready, IInv
  <1>5. PICK n \in Nat : n = Len(fs) /\ n > 1
    BY <1>1, <1>4, TopDepth
  <1>6. owner = t /\ t # None /\ Nested(fs) /\ Stocked(fs) /\ fs # << >> /\ Top(t) = fs[n]
    BY <1>1, <1>4, <1>5, TopDepth DEF Top
  <1>7. /\ Underway(Top(t).rest, view, b)
        /\ TornAtMost(b, crashes)
    BY <1>3, <1>4, <1>6 DEF DataInv, CallInv, Calling
  <1>8. HasTables(view) /\ HasTables(disk)
    BY DEF DataInv, TablesInv
  <1>9. CASE Refused(s, view, stack # << >>)
    <2>1. thread' = [thread EXCEPT ![t].failed = TRUE] /\ UNCHANGED <<disk, view>>
      BY <1>2, <1>9 DEF Statement
    <2>2. SameShape(fs, fs) /\ LeftWith(t, fs)
      BY <1>1, <1>4, <1>6, <2>1, OneThreadChanged DEF SameShape
    <2>3. ItemsInv'
      BY <1>6, <2>2, ItemsKept DEF DataInv
    <2>4. Calling' /\ Top(owner)' = Top(t)
      BY <1>1, <1>4, <1>6, <2>2 DEF Calling, Top, LeftWith
    <2>5. view = b
      BY <1>2, <1>4, <1>7, <1>9, RefusedAtOnce
    <2>6. CallInv'
      BY <1>3, <1>4, <1>7, <2>1, <2>4, <2>5 DEF CallInv
    <2>7. TablesInv'
      BY <1>4, <2>1, <2>4 DEF DataInv, TablesInv
    <2>8. RestoreInv'
      BY <1>1, <1>4, <2>2, RestoreKept
    <2> QED
      BY <2>3, <2>6, <2>7, <2>8 DEF DataInv
  <1>10. CASE ~Refused(s, view, stack # << >>)
    <2>1. PICK gs : gs = Taken(t)
      OBVIOUS
    <2>2. /\ view' = Executed(s, view)
          /\ disk' = IF stack = << >> THEN view' ELSE disk
          /\ thread' = [thread EXCEPT ![t].frames = gs]
      BY <1>2, <1>10, <2>1 DEF Statement
    <2>3. gs = [fs EXCEPT ![Len(fs)].rest = Tail(Top(t).rest)]
      BY <1>1, <2>1 DEF Taken, Top
    <2>4. SameShape(gs, fs) /\ Stocked(gs) /\ gs[Len(gs)].rest = Tail(Top(t).rest)
      <3>1. fs[Len(fs)].do = "call"
        BY <1>4, <1>5, <1>6
      <3>2. PICK r : r = Tail(Top(t).rest)
        OBVIOUS
      <3>3. gs = [fs EXCEPT ![Len(fs)].rest = r]
        BY <2>3, <3>2
      <3>4. Nested(fs) /\ fs # << >> /\ Stocked(fs)
        BY <1>6
      <3>5. SameShape(gs, fs) /\ Stocked(gs) /\ gs[Len(gs)].rest = r
        <4>1. fs[Len(fs)].do = "call" \/ r \in Seq(Items)
          BY <3>1
        <4> QED
          BY <3>3, <3>4, <4>1, TakenFrames, Zenon
      <3> QED
        BY <3>2, <3>5
    <2>5. LeftWith(t, gs)
      BY <1>4, <2>2, OneThreadChanged
    <2>6. ItemsInv'
      BY <2>4, <2>5, ItemsKept DEF DataInv
    <2>7. Len(gs) = n /\ gs[n].do = "call" /\ gs[n].before = b
      BY <1>3, <1>4, <1>5, <1>6, <2>4 DEF SameShape
    <2>8. Top(owner)' = gs[n]
      BY <1>4, <1>6, <2>5, <2>7 DEF Top, LeftWith
    <2>9. Calling'
      BY <1>4, <1>6, <2>7, <2>8 DEF Calling
    <2>10. HasTables(view') /\ Underway(Tail(Top(t).rest), view', b)
      BY <1>2, <1>4, <1>7, <1>8, <1>10, <2>2, StatementExecuted DEF Further
    <2>11. ~thread'[t].failed
      BY <1>4, <2>2 DEF MutexInv, IsThread
    <2>12. CallInv'
      <3>1. Top(owner)'.rest = Tail(Top(t).rest) /\ Top(owner)'.before = b
        BY <2>4, <2>7, <2>8
      <3> QED
        BY <1>4, <1>6, <1>7, <2>10, <2>11, <3>1 DEF CallInv
    <2>13. HasTables(disk') /\ (stack # << >> => disk' = disk)
      BY <1>8, <2>2, <2>10
    <2>14. TablesInv'
      BY <1>4, <2>9, <2>10, <2>13 DEF DataInv, TablesInv
    <2>15. RestoreInv'
      BY <1>1, <1>4, <2>4, <2>5, RestoreKept
    <2> QED
      BY <2>6, <2>12, <2>14, <2>15 DEF DataInv
  <1> QED
    BY <1>9, <1>10

-----------------------------------------------------------------------------
(* Leaving *)

(* What both ways of leaving share: the mutex is in a call no longer. *)
LEMMA LeaveData ==
    ASSUME IInv, DataInv, NEW t \in Threads, Busy(t), Top(t).do # "request",
           owner' = Unlocked(t), Popped(t),
           NEW fs, fs = thread[t].frames, NEW gs, gs = Under(t)
    PROVE  /\ owner = t /\ t # None
           /\ LeftWith(t, gs)
           /\ Len(fs) \in Nat /\ Len(fs) > 1 /\ Len(gs) = Len(fs) - 1
           /\ \A i \in 1..(Len(fs) - 1) : gs[i] = fs[i]
           /\ gs[Len(gs)].depth = Len(gs) - 1
           /\ OpenUnits' = Len(gs) - 1
           /\ OpenUnits = Top(t).depth
           /\ ItemsInv'
           /\ ~Calling'
           /\ owner' \in {None, t}
  <1>1. PICK n \in Nat : n = Len(fs) /\ n > 1
    BY TopDepth
  <1>2. owner = t /\ t # None /\ Nested(fs) /\ Stocked(fs)
    BY TopDepth
  <1>3. gs = SubSeq(fs, 1, Len(fs) - 1)
    BY DEF Under
  <1>4. /\ Stocked(gs)
        /\ \A i \in 1..(n - 1) : gs[i] = fs[i]
        /\ gs[Len(gs)].do # "call"
    BY <1>1, <1>2, <1>3, PoppedFrames
  <1>5. LeftWith(t, gs) /\ Len(gs) = n - 1 /\ OpenUnits' = gs[Len(gs)].depth /\ OpenUnits = Top(t).depth
    BY <1>1, LeaveKeeps DEF IInv, WithoutTop
  <1>6. gs[n - 1].depth = (n - 1) - 1
    BY <1>1, <1>4, <1>5 DEF Stocked, IsItemFrame
  <1>7. ItemsInv'
    BY <1>4, <1>5, ItemsKept DEF DataInv
  <1>8. owner' \in {None, t}
    BY DEF Unlocked
  <1>9. ~Calling'
    <2>1. CASE owner' = None
      BY <2>1 DEF Calling
    <2>2. CASE owner' = t
      BY <1>4, <1>5, <2>2, CallingAfter
    <2> QED
      BY <1>8, <2>1, <2>2
  <1> QED
    BY <1>1, <1>2, <1>4, <1>5, <1>6, <1>7, <1>8, <1>9

(* Without a leftover there is a savepoint for every frame above the request. *)
LEMMA RestoreLeft ==
    ASSUME IInv, DataInv, IInv', NEW t \in Threads, Busy(t), Top(t).do # "request",
           owner' = Unlocked(t), Popped(t),
           rolledBack' = 0 => /\ rolledBack = 0
                              /\ \A i \in 1..Len(stack') : i \in 1..Len(stack) /\ stack'[i] = stack[i]
    PROVE  RestoreInv'
  <1>1. PICK fs : fs = thread[t].frames
    OBVIOUS
  <1>2. PICK gs : gs = Under(t)
    OBVIOUS
  <1>3. PICK n \in Nat : n = Len(fs) /\ n > 1
    BY <1>1, <1>2, LeaveData
  <1>4. /\ owner = t /\ t # None /\ LeftWith(t, gs) /\ Len(gs) = n - 1
        /\ \A i \in 1..(n - 1) : gs[i] = fs[i]
        /\ OpenUnits' = Len(gs) - 1
        /\ owner' \in {None, t}
    BY <1>1, <1>2, <1>3, LeaveData
  <1> SUFFICES ASSUME rolledBack' = 0, owner' # None, NEW i \in 1..Len(stack')
               PROVE  stack'[i] = thread'[owner'].frames[i + 1].before
    BY DEF RestoreInv
  <1>5. Len(stack') = (n - 1) - 1
    BY <1>3, <1>4 DEF IInv, StackInv, SavepointsCounted
  <1>6. i + 1 \in 1..(n - 1)
    BY <1>3, <1>5
  <1>7. thread'[owner'].frames[i + 1] = fs[i + 1]
    BY <1>4, <1>6 DEF LeftWith
  <1>8. stack'[i] = stack[i] /\ stack[i] = fs[i + 1].before
    BY <1>1, <1>4 DEF DataInv, RestoreInv
  <1> QED
    BY <1>7, <1>8

LEMMA LeaveCallData ==
    ASSUME IInv, DataInv, NEW t \in Threads, LeaveCall(t) PROVE DataInv'
  <1>1. /\ Busy(t) /\ Top(t).do = "call" /\ Top(t).do # "request"
        /\ thread[t].failed \/ Top(t).rest = << >>
        /\ owner' = Unlocked(t) /\ Popped(t)
        /\ UNCHANGED <<disk, view, stack, rolledBack, crashes>>
    BY DEF LeaveCall, Over
  <1>2. owner = t /\ t # None /\ ItemsInv' /\ ~Calling'
    BY <1>1, LeaveData
  <1>3. IInv'
    BY LeaveCallInv
  <1>4. /\ Underway(Top(t).rest, view, Top(t).before)
        /\ thread[t].failed => view = Top(t).before
        /\ TornAtMost(Top(t).before, crashes)
    BY <1>1, <1>2 DEF DataInv, CallInv, Calling
  <1>5. crashes \in Nat /\ HasTables(view)
    BY DEF DataInv, TablesInv
  <1>6. TornAtMost(view, crashes)
    <2>1. CASE thread[t].failed
      BY <1>4, <2>1
    <2>2. CASE Top(t).rest = << >>
      BY <1>4, <1>5, <2>2, TornMore
    <2> QED
      BY <1>1, <2>1, <2>2
  <1>7. TablesInv'
    BY <1>1, <1>6 DEF DataInv, TablesInv
  <1>8. RestoreInv'
    BY <1>1, <1>3, RestoreLeft
  <1> QED
    BY <1>2, <1>7, <1>8 DEF DataInv, CallInv

LEMMA LeaveUnitData ==
    ASSUME IInv, DataInv, NEW t \in Threads, LeaveUnit(t) PROVE DataInv'
  <1>1. /\ Busy(t) /\ Top(t).do \in Units /\ Top(t).do # "request" /\ Top(t).do # "call"
        /\ owner' = Unlocked(t) /\ Popped(t)
        /\ RollbackTo \/ Release
        /\ UNCHANGED crashes
    BY DEF LeaveUnit, Over, Units
  <1>2. owner = t /\ t # None /\ ItemsInv' /\ ~Calling' /\ ~Calling
    BY <1>1, LeaveData DEF Calling
  <1>3. IInv'
    BY LeaveUnitInv
  <1>4. Top(t).depth \in Nat /\ Top(t).depth > 0 /\ OpenUnits = Top(t).depth
    BY <1>1, TopDepth
  <1>5. PICK k \in Nat : k = Len(stack) /\ k > 0
    BY <1>4 DEF IInv, StackInv, SavepointsCounted
  <1>6. stack # << >> /\ IsSequence(stack)
    BY <1>5, SequenceParts DEF IInv, StackInv
  <1>7. /\ crashes \in Nat /\ HasTables(view) /\ HasTables(disk)
        /\ TornAtMost(view, crashes) /\ TornAtMost(disk, crashes)
        /\ \A i \in 1..k : TornAtMost(stack[i], crashes)
    BY <1>2, <1>5, <1>6 DEF DataInv, TablesInv
  <1>8. CASE RollbackTo
    <2>1. view' = stack[k] /\ rolledBack' = rolledBack + 1 /\ UNCHANGED <<disk, stack>>
      BY <1>5, <1>8 DEF RollbackTo
    <2>2. TornAtMost(view', crashes) /\ HasTables(view')
      BY <1>5, <1>7, <2>1 DEF TornAtMost
    <2>3. TablesInv'
      BY <1>1, <1>5, <1>7, <2>1, <2>2 DEF TablesInv
    <2>4. rolledBack' # 0
      BY <2>1 DEF IInv, StackInv
    <2> QED
      BY <1>2, <2>3, <2>4 DEF DataInv, CallInv, RestoreInv
  <1>9. CASE Release
    <2>1. /\ stack' = SubSeq(stack, 1, Len(stack) - 1)
          /\ disk' = view \/ disk' = disk
          /\ UNCHANGED <<view, rolledBack>>
      BY <1>9 DEF Release
    <2>2. Len(stack') = k - 1 /\ \A i \in 1..(k - 1) : stack'[i] = stack[i]
      BY <1>5, <1>6, <2>1, Shortened
    <2>3. TablesInv'
      BY <1>1, <1>5, <1>7, <2>1, <2>2 DEF TablesInv
    <2>4. RestoreInv'
      BY <1>1, <1>3, <1>5, <2>1, <2>2, RestoreLeft
    <2> QED
      BY <1>2, <2>3, <2>4 DEF DataInv, CallInv
  <1> QED
    BY <1>1, <1>8, <1>9

-----------------------------------------------------------------------------
(* The other steps *)

LEMMA StartData ==
    ASSUME IInv, DataInv, NEW t \in Threads, NEW request \in Requests, Start(t, request)
    PROVE  DataInv'
  <1>1. PICK x : x = Frame([do |-> "request", rest |-> request, ignored |-> FALSE], 0, view)
    OBVIOUS
  <1>2. owner # t
    <2>1. Len(thread[t].frames) = 0
      BY NoFrames DEF Start, Busy
    <2> QED
      BY <2>1 DEF IInv, MutexInv
  <1>3. LeftWith(t, <<x>>)
    BY <1>1 DEF Start, LeftWith, Idle, IInv, MutexInv
  <1>4. x.rest = request /\ x.depth = 0 /\ "rest" \in DOMAIN x
    BY <1>1 DEF Frame
  <1>5. IsItemFrame(x, 1)
    BY <1>4, ItemsAssumption DEF IsItemFrame
  <1>6. Stocked(<<x>>)
    BY <1>5 DEF Stocked
  <1>7. UNCHANGED <<disk, view, stack, owner, rolledBack, crashes>>
    BY DEF Start
  <1> QED
    BY <1>2, <1>3, <1>6, <1>7, OutsiderData

LEMMA ReturnData ==
    ASSUME IInv, DataInv, NEW t \in Threads, Return(t) PROVE DataInv'
  <1>1. Busy(t) /\ Top(t).do = "request"
    BY DEF Return, Over
  <1>2. PICK n \in Nat : n = Len(thread[t].frames) /\ n > 0
    BY <1>1, BusyFrames DEF IInv
  <1>3. n = 1
    <2>1. ASSUME n > 1 PROVE FALSE
      <3>1. Above(thread[t].frames[n - 1], thread[t].frames[n])
        BY <1>1, <1>2, <2>1, UnderTop, BusyFrames DEF IInv
      <3> QED
        BY <1>1, <1>2, <3>1 DEF Above, Top, Units
    <2> QED
      BY <1>2, <2>1, Counts
  <1>4. owner # t
    <2>1. (Len(thread[t].frames) > 1) <=> (owner = t)
      BY DEF IInv, MutexInv
    <2> QED
      BY <1>2, <1>3, <2>1
  <1>5. LeftWith(t, << >>)
    BY DEF Return, LeftWith, Idle, IInv, MutexInv
  <1>6. Stocked(<< >>)
    BY NoFrames DEF Stocked
  <1>7. UNCHANGED <<disk, view, stack, owner, rolledBack, crashes>>
    BY DEF Return
  <1> QED
    BY <1>4, <1>5, <1>6, <1>7, OutsiderData

(* A crash may leave what the call that runs has torn. *)
LEMMA CrashData == ASSUME IInv, DataInv, Crash PROVE DataInv'
  <1>1. /\ crashes' = crashes + 1 /\ view' = disk /\ disk' = disk
        /\ stack' = << >> /\ owner' = None
        /\ \A t \in Threads : thread'[t] = Idle
    BY DEF Crash
  <1>2. ItemsInv'
    <2>1. \A t \in Threads : Len(thread'[t].frames) = 0
      BY <1>1, NoFrames DEF Idle
    <2> QED
      BY <2>1 DEF ItemsInv
  <1>3. TornAtMost(disk, crashes + 1)
    <2>1. CASE stack = << >>
      <3>1. disk = view
        BY <2>1 DEF IInv, StackInv
      <3> QED
        BY <3>1, ViewTorn DEF DataInv
    <2>2. CASE stack # << >>
      BY <2>2, TornOneMore DEF DataInv, TablesInv
    <2> QED
      BY <2>1, <2>2
  <1>4. ~Calling' /\ Len(stack') = 0
    BY <1>1, NoFrames DEF Calling
  <1>5. TablesInv'
    BY <1>1, <1>3, <1>4 DEF DataInv, TablesInv
  <1> QED
    BY <1>1, <1>2, <1>4, <1>5 DEF DataInv, CallInv, RestoreInv

LEMMA InitData == Init => DataInv
  <1> SUFFICES ASSUME Init PROVE DataInv
    OBVIOUS
  <1>1. view = InitDatabase /\ disk = InitDatabase /\ stack = << >> /\ crashes = 0 /\ owner = None
    BY DEF Init
  <1>2. ItemsInv
    <2>1. \A t \in Threads : Len(thread[t].frames) = 0
      BY NoFrames DEF Init, Idle
    <2> QED
      BY <2>1 DEF ItemsInv
  <1>3. HasTables(InitDatabase)
    BY EmptySeq DEF HasTables, InitDatabase
  <1>4. Torn(InitDatabase) = {}
    BY DEF Torn, TornPartitions, TornEdges, InitDatabase
  <1>5. TornAtMost(InitDatabase, 0)
    BY <1>3, <1>4, FS_EmptySet DEF TornAtMost
  <1>6. ~Calling /\ Len(stack) = 0
    BY <1>1, NoFrames DEF Calling
  <1> QED
    BY <1>1, <1>2, <1>3, <1>5, <1>6 DEF DataInv, CallInv, TablesInv, RestoreInv

LEMMA StepData == IInv /\ DataInv /\ [Next]_vars => DataInv'
  <1> SUFFICES ASSUME IInv, DataInv, [Next]_vars PROVE DataInv'
    OBVIOUS
  <1>1. CASE UNCHANGED vars
    <2>1. UNCHANGED <<disk, view, stack, owner, thread, rolledBack, crashes>>
      BY <1>1 DEF vars
    <2>2. (Calling' <=> Calling) /\ Top(owner)' = Top(owner)
      BY <2>1 DEF Calling, Top
    <2>3. ItemsInv'
      BY <2>1 DEF DataInv, ItemsInv
    <2>4. CallInv'
      BY <2>1, <2>2 DEF DataInv, CallInv
    <2>5. TablesInv'
      BY <2>1, <2>2 DEF DataInv, TablesInv
    <2>6. RestoreInv'
      BY <2>1 DEF DataInv, RestoreInv
    <2> QED
      BY <2>3, <2>4, <2>5, <2>6 DEF DataInv
  <1>2. CASE Crash
    BY <1>2, CrashData
  <1>3. ASSUME NEW t \in Threads, Serve(t) PROVE DataInv'
    BY <1>3, EnterCallData, EnterUnitData, FailUnitData, StatementData, LeaveCallData,
       LeaveUnitData, ReturnData DEF Serve, Enter, Leave
  <1>4. ASSUME NEW t \in Threads, NEW request \in Requests, Start(t, request) PROVE DataInv'
    BY <1>4, StartData
  <1> QED
    BY <1>1, <1>2, <1>3, <1>4 DEF Next

(* A step of one thread leaves the others where they are. *)
LEMMA OthersStay ==
    ASSUME IInv, NEW t \in Threads, NEW u \in Threads, u # t,
           Serve(u) \/ \E request \in Requests : Start(u, request)
    PROVE  thread'[t] = thread[t]
  <1>1. DOMAIN thread = Threads
    BY DEF IInv, MutexInv
  <1>2. CASE EnterCall(u)
    BY <1>1, <1>2 DEF EnterCall
  <1>3. CASE EnterUnit(u)
    BY <1>1, <1>3 DEF EnterUnit
  <1>4. CASE FailUnit(u)
    BY <1>1, <1>4 DEF FailUnit
  <1>5. CASE Statement(u)
    BY <1>1, <1>5 DEF Statement
  <1>6. CASE LeaveCall(u)
    BY <1>1, <1>6 DEF LeaveCall, Popped
  <1>7. CASE LeaveUnit(u)
    BY <1>1, <1>7 DEF LeaveUnit, Popped
  <1>8. CASE Return(u)
    BY <1>1, <1>8 DEF Return
  <1>9. ASSUME NEW request \in Requests, Start(u, request) PROVE thread'[t] = thread[t]
    BY <1>1, <1>9 DEF Start
  <1> QED
    BY <1>2, <1>3, <1>4, <1>5, <1>6, <1>7, <1>8, <1>9 DEF Serve, Enter, Leave

(* Only leaving a call or a unit takes away the top frame of a thread that  *)
(* has failed.                                                              *)
LEMMA FailsByLeaving ==
    ASSUME IInv, DataInv, Next, NEW t \in Threads, FailsOut(t)
    PROVE  LeaveCall(t) \/ LeaveUnit(t)
  <1>1. PICK fs : fs = thread[t].frames
    OBVIOUS
  <1>2. PICK n \in Nat : n = Len(fs) /\ n > 1
    BY <1>1, TopDepth DEF FailsOut
  <1>3. Nested(fs) /\ Len(Under(t)) = n - 1
    BY <1>1, <1>2, TopDepth, Shortened DEF FailsOut, Under, Nested
  <1>4. Len(thread'[t].frames) = n - 1
    BY <1>3 DEF FailsOut
  <1>5. ~Crash
    <2> SUFFICES ASSUME Crash PROVE FALSE
      OBVIOUS
    <2>1. Len(thread'[t].frames) = 0
      BY NoFrames DEF Crash, Idle
    <2> QED
      BY <1>2, <1>4, <2>1
  <1>6. thread'[t] # thread[t]
    BY <1>1, <1>2, <1>4
  <1>7. PICK u \in Threads : Serve(u) \/ \E request \in Requests : Start(u, request)
    BY <1>5 DEF Next
  <1>8. u = t
    BY <1>6, <1>7, OthersStay
  <1>9. ~EnterCall(t) /\ ~EnterUnit(t) /\ ~FailUnit(t) /\ ~Statement(t)
    BY DEF EnterCall, EnterUnit, FailUnit, Statement, Ready, FailsOut
  <1>10. ~Return(t) /\ \A request \in Requests : ~Start(t, request)
    BY DEF Return, Over, Start, FailsOut
  <1> QED
    BY <1>7, <1>8, <1>9, <1>10 DEF Serve, Enter, Leave

(* The tables fit each other when the mutex is free: a crash in the middle  *)
(* of a call is all that tears them, and one crash tears one partition or   *)
(* one edge at most.                                                        *)
THEOREM CrashTearsOneHolds == Spec => []CrashTearsOne
  <1>1. IInv /\ DataInv => CrashTearsOne
    <2> SUFFICES ASSUME IInv, DataInv, NEW d \in {disk, view}
                 PROVE  Cardinality(Torn(d)) <= crashes + (IF InCall THEN 1 ELSE 0)
      BY DEF CrashTearsOne
    <2>1. crashes \in Nat
      BY DEF DataInv, TablesInv
    <2>2. Calling => InCall
      <3> SUFFICES ASSUME Calling PROVE InCall
        OBVIOUS
      <3>1. owner \in Threads /\ Len(thread[owner].frames) > 1
        BY DEF Calling, IInv, MutexInv
      <3>2. Busy(owner)
        BY <3>1, NoFrames DEF Busy
      <3> QED
        BY <3>1, <3>2 DEF Calling, InCall
    <2>3. TornAtMost(d, crashes) \/ (Calling /\ TornAtMost(d, crashes + 1))
      <3>1. TornAtMost(view, crashes) \/ (Calling /\ TornAtMost(view, crashes + 1))
        BY ViewTorn DEF DataInv, TablesInv
      <3>2. disk = view \/ TornAtMost(disk, crashes)
        BY DEF IInv, StackInv, DataInv, TablesInv
      <3> QED
        BY <3>1, <3>2
    <2>4. Cardinality(Torn(d)) \in Nat
      BY <2>3, FS_CardinalityType DEF TornAtMost
    <2> QED
      BY <2>1, <2>2, <2>3, <2>4 DEF TornAtMost
  <1> QED
    BY <1>1, InitInv, StepInv, InitData, StepData, PTL DEF Spec

(* A call that is refused and a unit that fails leave the tables as they    *)
(* found them, unless a unit was rolled back before: the statements of a    *)
(* call are in such an order that only its first can be refused, and ROLL-  *)
(* BACK TO brings back what the failing unit found and not what another     *)
(* did.                                                                     *)
THEOREM FailuresLeaveNoTraceHolds == Spec => FailuresLeaveNoTrace
  <1> DEFINE Undone == \A t \in Threads :
          FailsOut(t) /\ rolledBack = 0 /\ Top(t).do # "transaction" => view' = Top(t).before
  <1>1. IInv /\ DataInv /\ [Next]_vars => [Undone]_vars
    <2> SUFFICES ASSUME IInv, DataInv, Next, NEW t \in Threads, FailsOut(t),
                        rolledBack = 0, Top(t).do # "transaction"
                 PROVE  view' = Top(t).before
      OBVIOUS
    <2>1. /\ Busy(t) /\ Top(t).do # "request" /\ thread[t].failed
          /\ owner = t /\ t # None
      BY TopDepth DEF FailsOut
    <2>2. CASE LeaveCall(t)
      <3>1. Calling /\ view' = view
        BY <2>1, <2>2 DEF LeaveCall, Over, Calling
      <3> QED
        BY <2>1, <3>1 DEF DataInv, CallInv
    <2>3. CASE LeaveUnit(t)
      <3>1. Top(t).do \in Units /\ view' = stack[Len(stack)]
        BY <2>1, <2>3 DEF LeaveUnit, Over, RollbackTo
      <3>2. PICK n \in Nat : n = Len(thread[t].frames) /\ n > 1
        BY <2>1, TopDepth
      <3>3. Len(stack) = n - 1
        BY <2>1, <3>1, <3>2, TopDepth DEF IInv, StackInv, SavepointsCounted
      <3>4. stack[n - 1] = thread[t].frames[(n - 1) + 1].before
        BY <2>1, <3>2, <3>3 DEF DataInv, RestoreInv
      <3> QED
        BY <3>1, <3>2, <3>3, <3>4 DEF Top
    <2> QED
      BY <2>2, <2>3, FailsByLeaving
  <1> QED
    BY <1>1, InitInv, StepInv, InitData, StepData, PTL DEF Spec, FailuresLeaveNoTrace
=============================================================================
