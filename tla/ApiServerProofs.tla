--------------------------- MODULE ApiServerProofs ---------------------------
(***************************************************************************)
(* What ApiServer promises for any number of clients and workers.  The     *)
(* order of a request's steps carries it: every suffix of a program still  *)
(* says what may come after what, so the invariant speaks of the steps a   *)
(* request has left and of who holds the lock around the repository.       *)
(***************************************************************************)
EXTENDS ApiServer, TLAPS

Causes == {"none", "done", "garbled", "malformed", "unknown", "taken", "gone", "refused",
           "call", "poisoned", "panic", "stop"}

Codes == {"none", "OK", "rejected", "dropped", "INVALID_PARAMS", "INTERNAL_ERROR",
          "STORAGE_ERROR", "NOT_FOUND", "ERROR", "CHECKPOINT_ERROR"}

Steps == {"db", "/db", "backup", "/backup", "read", "write", "drop", "put", "clear",
          "parse", "find", "recall", "again", "taken", "refuse", "current", "move", "settle", "compare",
          "fresh", "diverge", "remove", "sync"}

Jobs == [op : Ops \cup {"none"},
         names : {"known", "unknown", "malformed", "taken", "garbled"},
         todo : Seq(Steps), running : BOOLEAN, wrote : BOOLEAN,
         answer : [code : Codes, cause : Causes]]

Locks == [readers : SUBSET Clients, writer : Clients \cup {NoClient},
          waiting : SUBSET Clients, poisoned : BOOLEAN]

TypeInv ==
    /\ job \in [Clients -> Jobs]
    /\ lock \in Locks
    /\ memory \in [branches : BOOLEAN, stale : BOOLEAN]

-----------------------------------------------------------------------------
(* The order of steps *)

Naming == {"parse", "find", "recall", "taken"}  \* may refuse a request for its names
Writing == {"put", "clear"}
Panicking == {"fresh", "compare", "sync"}   \* may panic whatever memory holds

Has(todo, steps) == \E i \in 1..Len(todo) : todo[i] \in steps

(* Names are looked up before anything is written, and a step that may panic *)
(* finds the lock dropped.                                                   *)
LooksUpFirst(todo) ==
    \A i, j \in 1..Len(todo) : i < j /\ todo[i] \in Writing => todo[j] \notin Naming

DropsBetween(todo) ==
    \A i, j \in 1..Len(todo) :
        i < j /\ todo[i] = "write" /\ todo[j] \in Panicking =>
            \E k \in 1..Len(todo) : i < k /\ k < j /\ todo[k] = "drop"

Orderly(todo) == todo \in Seq(Steps) /\ LooksUpFirst(todo) /\ DropsBetween(todo)

(* A commit locks before it moves the head, and holds the lock to its end.   *)
CommitOrder(todo) ==
    /\ ~ Has(todo, {"drop"})
    /\ \A i \in 1..Len(todo) : todo[i] = "write" =>
          \E j \in 1..Len(todo) : i < j /\ todo[j] = "move"

(* What a request that holds the lock has left to do.                        *)
DropsFirst(todo) ==
    \A j \in 1..Len(todo) : todo[j] \in Panicking =>
        \E i \in 1..Len(todo) : i < j /\ todo[i] = "drop"

LEMMA ProgramForms ==
    ASSUME NEW op
    PROVE  Program(op) \in {
        <<"write", "taken", "current">> \o Write,
        Switch,
        Call \o <<"read", "current">>,
        CommitStaged,
        <<"read", "current">>,
        <<"parse", "read", "find">>,
        <<"parse", "read", "find">> \o Call,
        <<"parse", "read", "find">> \o Write,
        <<"read", "find">> \o Call,
        MergeBranch,
        Load \o Write,
        Load \o Write \o <<"diverge">>,
        Call \o <<"remove">> \o Write \o <<"sync">> \o Write,
        <<"db", "clear", "/db">>,
        CopyToBackup,
        RestoreBackup,
        Call \o <<"find">> \o Call,
        <<"parse">> \o Call \o <<"find">> \o Call,
        Call \o <<"find">> \o Write,
        Call,
        Call \o Write}
PROOF
  BY DEF Program

LEMMA ProgramsAreOrderly ==
    ASSUME NEW op
    PROVE  Orderly(Program(op))
PROOF
  <1> USE DEF Orderly, LooksUpFirst, DropsBetween, Steps, Naming, Writing, Panicking,
              Call, Write, Load
  <1>1. Orderly(<<"write", "taken", "current">> \o Write)
    OBVIOUS
  <1>2. Orderly(Switch)
    BY DEF Switch
  <1>3. Orderly(Call \o <<"read", "current">>)
    OBVIOUS
  <1>4. Orderly(CommitStaged)
    BY DEF CommitStaged
  <1>5. Orderly(<<"read", "current">>)
    OBVIOUS
  <1>6. Orderly(<<"parse", "read", "find">>)
    OBVIOUS
  <1>7. Orderly(<<"parse", "read", "find">> \o Call)
    OBVIOUS
  <1>8. Orderly(<<"parse", "read", "find">> \o Write)
    OBVIOUS
  <1>9. Orderly(MergeBranch)
    BY DEF MergeBranch
  <1>10. Orderly(Load \o Write)
    OBVIOUS
  <1>11. Orderly(Load \o Write \o <<"diverge">>)
    OBVIOUS
  <1>12. Orderly(Call \o <<"remove">> \o Write \o <<"sync">> \o Write)
    OBVIOUS
  <1>13. Orderly(<<"db", "clear", "/db">>)
    OBVIOUS
  <1>14. Orderly(CopyToBackup)
    BY DEF CopyToBackup
  <1>15. Orderly(RestoreBackup)
    BY DEF RestoreBackup
  <1>16. Orderly(Call \o <<"find">> \o Call)
    OBVIOUS
  <1>17. Orderly(<<"parse">> \o Call \o <<"find">> \o Call)
    OBVIOUS
  <1>18. Orderly(Call \o <<"find">> \o Write)
    OBVIOUS
  <1>19. Orderly(Call)
    OBVIOUS
  <1>20. Orderly(Call \o Write)
    OBVIOUS
  <1>21. Orderly(<<"read", "find">> \o Call)
    OBVIOUS
  <1> HIDE DEF Orderly, Call, Write, Load
  <1> QED
    BY <1>21, <1>1, <1>2, <1>3, <1>4, <1>5, <1>6, <1>7, <1>8, <1>9, <1>10, <1>11, <1>12, <1>13, <1>14, <1>15, <1>16, <1>17, <1>18, <1>19, <1>20, ProgramForms

LEMMA CommitIsOrdered ==
    CommitOrder(Program("commit"))
PROOF
  <1>1. Program("commit") = CommitStaged
    BY DEF Program
  <1>2. CommitOrder(CommitStaged)
    BY DEF CommitOrder, Has, CommitStaged, Call, Write
  <1> QED BY <1>1, <1>2

(* What passing a step leaves of the order of the others.                    *)
LEMMA TailOrder ==
    ASSUME NEW todo, Orderly(todo), todo # << >>
    PROVE  /\ Orderly(Tail(todo))
           /\ CommitOrder(todo) => CommitOrder(Tail(todo))
           /\ DropsFirst(todo) /\ Head(todo) # "drop" => DropsFirst(Tail(todo))
           /\ Head(todo) = "write" => DropsFirst(Tail(todo))
           /\ Head(todo) \in Writing => ~ Has(Tail(todo), Naming)
PROOF
  <1> DEFINE rest == Tail(todo)
  <1>1. PICK n \in Nat : n = Len(rest)
    BY DEF Orderly
  <1>2. /\ rest \in Seq(Steps) /\ Len(todo) = n + 1 /\ Head(todo) = todo[1]
        /\ \A i \in 1..n : rest[i] = todo[i + 1]
    BY <1>1 DEF Orderly
  <1> HIDE DEF rest
  <1>3. \A i \in 1..n : i + 1 \in 1..(n + 1) /\ 1 < i + 1
    OBVIOUS
  <1>4. \A k \in 1..(n + 1) : k # 1 => k - 1 \in 1..n /\ (k - 1) + 1 = k
    OBVIOUS
  <1>5. LooksUpFirst(rest)
    BY <1>1, <1>2, <1>3 DEF Orderly, LooksUpFirst
  <1>6. DropsBetween(rest)
    <2> SUFFICES ASSUME NEW i \in 1..n, NEW j \in 1..n, i < j,
                        rest[i] = "write", rest[j] \in Panicking
                 PROVE  \E k \in 1..n : i < k /\ k < j /\ rest[k] = "drop"
      BY <1>1 DEF DropsBetween
    <2>1. PICK k \in 1..(n + 1) : i + 1 < k /\ k < j + 1 /\ todo[k] = "drop"
      BY <1>2, <1>3 DEF Orderly, DropsBetween
    <2>2. k - 1 \in 1..n /\ rest[k - 1] = "drop" /\ i < k - 1 /\ k - 1 < j
      BY <1>2, <1>4, <2>1
    <2> QED BY <2>2
  <1>7. ASSUME CommitOrder(todo)
        PROVE  CommitOrder(rest)
    <2>1. ~ Has(rest, {"drop"})
      BY <1>1, <1>2, <1>3, <1>7 DEF CommitOrder, Has
    <2>2. ASSUME NEW i \in 1..n, rest[i] = "write"
          PROVE  \E j \in 1..n : i < j /\ rest[j] = "move"
      <3>1. PICK j \in 1..(n + 1) : i + 1 < j /\ todo[j] = "move"
        BY <1>2, <1>3, <1>7, <2>2 DEF CommitOrder
      <3>2. j - 1 \in 1..n /\ rest[j - 1] = "move" /\ i < j - 1
        BY <1>2, <1>4, <3>1
      <3> QED BY <3>2
    <2> QED BY <1>1, <2>1, <2>2 DEF CommitOrder
  <1>8. ASSUME DropsFirst(todo), Head(todo) # "drop", NEW j \in 1..n, rest[j] \in Panicking
        PROVE  \E i \in 1..n : i < j /\ rest[i] = "drop"
    <2>1. PICK i \in 1..(n + 1) : i < j + 1 /\ todo[i] = "drop"
      BY <1>2, <1>3, <1>8 DEF DropsFirst
    <2>2. i # 1
      BY <1>2, <1>8, <2>1
    <2>3. i - 1 \in 1..n /\ rest[i - 1] = "drop" /\ i - 1 < j
      BY <1>2, <1>4, <2>1, <2>2
    <2> QED BY <2>3
  <1>9. ASSUME Head(todo) = "write", NEW j \in 1..n, rest[j] \in Panicking
        PROVE  \E i \in 1..n : i < j /\ rest[i] = "drop"
    <2>1. PICK i \in 1..(n + 1) : 1 < i /\ i < j + 1 /\ todo[i] = "drop"
      <3>1. 1 \in 1..(n + 1) /\ todo[1] = "write" /\ todo[j + 1] \in Panicking
        BY <1>2, <1>9
      <3> QED BY <1>2, <1>3, <3>1 DEF Orderly, DropsBetween
    <2>2. i - 1 \in 1..n /\ rest[i - 1] = "drop" /\ i - 1 < j
      BY <1>2, <1>4, <2>1
    <2> QED BY <2>2
  <1>10. ASSUME Head(todo) \in Writing, NEW j \in 1..n
         PROVE  rest[j] \notin Naming
    <2>1. 1 \in 1..(n + 1) /\ todo[1] \in Writing
      BY <1>2, <1>10
    <2> QED BY <1>2, <1>3, <2>1 DEF Orderly, LooksUpFirst
  <1>11. Orderly(rest)
    BY <1>2, <1>5, <1>6 DEF Orderly
  <1>12. /\ DropsFirst(todo) /\ Head(todo) # "drop" => DropsFirst(rest)
         /\ Head(todo) = "write" => DropsFirst(rest)
    BY <1>1, <1>8, <1>9 DEF DropsFirst
  <1>13. Head(todo) \in Writing => ~ Has(rest, Naming)
    BY <1>1, <1>10 DEF Has
  <1> QED BY <1>7, <1>11, <1>12, <1>13 DEF rest

LEMMA TailHas ==
    ASSUME NEW todo \in Seq(Steps), todo # << >>, NEW S
    PROVE  /\ Has(Tail(todo), S) => Has(todo, S)
           /\ Has(todo, S) => Has(Tail(todo), S) \/ Head(todo) \in S
PROOF
  <1> DEFINE rest == Tail(todo)
  <1>1. PICK n \in Nat : n = Len(rest)
    OBVIOUS
  <1>2. /\ Len(todo) = n + 1 /\ Head(todo) = todo[1]
        /\ \A i \in 1..n : rest[i] = todo[i + 1]
    BY <1>1
  <1> HIDE DEF rest
  <1>3. \A i \in 1..n : i + 1 \in 1..(n + 1)
    OBVIOUS
  <1>4. \A k \in 1..(n + 1) : k # 1 => k - 1 \in 1..n /\ (k - 1) + 1 = k
    OBVIOUS
  <1>5. Has(rest, S) => Has(todo, S)
    BY <1>1, <1>2, <1>3 DEF Has
  <1>6. ASSUME Has(todo, S), Head(todo) \notin S
        PROVE  Has(rest, S)
    <2>1. PICK k \in 1..(n + 1) : todo[k] \in S
      BY <1>2, <1>6 DEF Has
    <2>2. k # 1
      BY <1>2, <1>6, <2>1
    <2>3. k - 1 \in 1..n /\ rest[k - 1] \in S
      BY <1>2, <1>4, <2>1, <2>2
    <2> QED BY <1>1, <2>3 DEF Has
  <1> QED BY <1>5, <1>6 DEF rest

-----------------------------------------------------------------------------
(* The inductive invariant *)

Refusals == {"malformed", "unknown", "taken"}

(* Client c with job j while the lock around the repository is l.            *)
ClientInv(j, l, c) ==
    /\ j.running => j.op # "none" /\ j.answer = NoAnswer
    /\ Orderly(j.todo)
    /\ j.op = "commit" => CommitOrder(j.todo)
    /\ j.op = "commit" /\ Has(j.todo, {"settle"}) /\ ~ Has(j.todo, {"write"}) => l.writer = c
    /\ l.writer = c => j.running /\ DropsFirst(j.todo)
    /\ j.wrote => ~ Has(j.todo, Naming)
    /\ j.answer.cause \in Refusals => ~ j.wrote

WriterAlone(l) == l.writer # NoClient => l.readers = {}

Inv ==
    /\ TypeInv
    /\ \A c \in Clients : ClientInv(job[c], lock, c)
    /\ WriterAlone(lock)
    /\ PoisonedOnlyBranchless

(* c has passed the first of its steps, and w says whether it has written.   *)
Passes(c, w) ==
    /\ job' \in [Clients -> Jobs]
    /\ \A d \in Clients \ {c} : job'[d] = job[d]
    /\ job'[c].todo = Tail(job[c].todo)
    /\ job'[c].wrote = w
    /\ job'[c].op = job[c].op
    /\ job'[c].running = job[c].running
    /\ job'[c].answer = job[c].answer

(* c has its answer.                                                         *)
Ends(c, cause) ==
    /\ job' \in [Clients -> Jobs]
    /\ \A d \in Clients \ {c} : job'[d] = job[d]
    /\ job'[c].todo = << >>
    /\ job'[c].wrote = job[c].wrote
    /\ job'[c].running = FALSE
    /\ job'[c].answer.cause = cause

(* To everyone but c the lock is what it was.                                *)
SameForOthers(c) ==
    /\ lock' \in Locks
    /\ WriterAlone(lock')
    /\ \A d \in Clients \ {c} : lock'.writer = d <=> lock.writer = d

LEMMA JobType ==
    ASSUME TypeInv, NEW c \in Clients
    PROVE  /\ job[c] \in Jobs /\ job[c].todo \in Seq(Steps)
           /\ job[c].wrote \in BOOLEAN /\ job[c].running \in BOOLEAN
PROOF
  BY DEF TypeInv, Jobs

LEMMA EmptyTodo ==
    /\ << >> \in Seq(Steps)
    /\ Orderly(<< >>) /\ CommitOrder(<< >>)
    /\ \A S : ~ Has(<< >>, S)
PROOF
  BY DEF Orderly, LooksUpFirst, DropsBetween, CommitOrder, Has

LEMMA NextPasses ==
    ASSUME TypeInv, NEW c \in Clients, job[c].todo # << >>, NEW w \in BOOLEAN,
           \/ Next1(c) /\ w = job[c].wrote
           \/ job' = [job EXCEPT ![c].todo = Tail(@), ![c].wrote = TRUE] /\ w
    PROVE  Passes(c, w)
PROOF
  <1>1. job[c] \in Jobs /\ Tail(job[c].todo) \in Seq(Steps) /\ job \in [Clients -> Jobs]
    <2>1. job[c].todo \in Seq(Steps)
      BY JobType
    <2> QED BY <2>1, JobType DEF TypeInv
  <1> DEFINE todo == Tail(job[c].todo)
  <1>2. /\ [job[c] EXCEPT !.todo = todo] \in Jobs
        /\ [job[c] EXCEPT !.todo = todo, !.wrote = TRUE] \in Jobs
    BY <1>1 DEF Jobs
  <1>3. CASE Next1(c) /\ w = job[c].wrote
    <2>1. job' = [job EXCEPT ![c] = [job[c] EXCEPT !.todo = todo]]
      BY <1>3 DEF Next1
    <2>2. job'[c] = [job[c] EXCEPT !.todo = todo]
      BY <1>1, <2>1
    <2> QED BY <1>1, <1>2, <1>3, <2>1, <2>2 DEF Passes, Jobs
  <1>4. CASE job' = [job EXCEPT ![c].todo = Tail(@), ![c].wrote = TRUE] /\ w
    <2>1. job' = [job EXCEPT ![c] = [job[c] EXCEPT !.todo = todo, !.wrote = TRUE]]
      BY <1>1, <1>4
    <2>2. job'[c] = [job[c] EXCEPT !.todo = todo, !.wrote = TRUE]
      BY <1>1, <2>1
    <2> QED BY <1>1, <1>2, <1>4, <2>1, <2>2 DEF Passes, Jobs
  <1> QED BY <1>3, <1>4

LEMMA AnsweredEnds ==
    ASSUME TypeInv, NEW c \in Clients, NEW code \in Codes, NEW cause \in Causes,
           Answered(c, code, cause)
    PROVE  Ends(c, cause)
PROOF
  <1>1. job[c] \in Jobs /\ job \in [Clients -> Jobs]
    BY JobType DEF TypeInv
  <1> DEFINE answer == [code |-> code, cause |-> cause]
             done == [job[c] EXCEPT !.todo = << >>, !.running = FALSE, !.answer = answer]
  <1>2. done \in Jobs
    BY <1>1, EmptyTodo DEF Jobs
  <1>3. job' = [job EXCEPT ![c] = done]
    BY <1>1 DEF Answered
  <1>4. job'[c] = done
    BY <1>1, <1>3
  <1> QED BY <1>1, <1>2, <1>3, <1>4 DEF Ends, Jobs

(* Passing a step keeps the invariant when what happens to the lock is what  *)
(* the step is about.                                                        *)
LEMMA PassingKeeps ==
    ASSUME Inv, NEW c \in Clients, c \in Running, job[c].todo # << >>, NEW w \in BOOLEAN,
           Passes(c, w), w = job[c].wrote \/ Head(job[c].todo) \in Writing,
           SameForOthers(c),
           lock'.writer = c => \/ lock.writer = c /\ Head(job[c].todo) # "drop"
                               \/ Head(job[c].todo) = "write",
           Head(job[c].todo) = "write" => lock'.writer = c,
           lock.writer = c => lock'.writer = c \/ Head(job[c].todo) = "drop",
           lock'.poisoned = lock.poisoned,
           memory' \in [branches : BOOLEAN, stale : BOOLEAN],
           memory'.branches = memory.branches
    PROVE  Inv'
PROOF
  <1> DEFINE todo == job[c].todo
             step == Head(todo)
  <1>0. /\ TypeInv /\ ClientInv(job[c], lock, c) /\ PoisonedOnlyBranchless
        /\ todo \in Seq(Steps) /\ Orderly(todo)
        /\ job[c].running
    BY JobType DEF Inv, ClientInv, Running
  <1>1. TypeInv'
    BY DEF Passes, SameForOthers, TypeInv
  <1>2. ASSUME NEW d \in Clients \ {c}
        PROVE  ClientInv(job'[d], lock', d)
    <2>1. ClientInv(job[d], lock, d) /\ job'[d] = job[d]
      BY DEF Inv, Passes
    <2>2. lock'.writer = d <=> lock.writer = d
      BY DEF SameForOthers
    <2> QED BY <2>1, <2>2 DEF ClientInv
  <1>3. ClientInv(job'[c], lock', c)
    <2> DEFINE rest == Tail(todo)
    <2>1. /\ job'[c].todo = rest /\ job'[c].op = job[c].op /\ job'[c].wrote = w
          /\ job'[c].running /\ job'[c].answer = job[c].answer
      BY <1>0 DEF Passes
    <2>2. /\ Orderly(rest) /\ (job[c].op = "commit" => CommitOrder(rest))
          /\ DropsFirst(todo) /\ step # "drop" => DropsFirst(rest)
          /\ step = "write" => DropsFirst(rest)
          /\ step \in Writing => ~ Has(rest, Naming)
      BY <1>0, TailOrder DEF ClientInv
    <2>3. \A S : /\ Has(rest, S) => Has(todo, S)
                 /\ Has(todo, S) => Has(rest, S) \/ step \in S
      BY <1>0, TailHas
    <2>4. step = "drop" => Has(todo, {"drop"})
      <3>1. 1 \in 1..Len(todo) /\ todo[1] = step
        BY <1>0
      <3> QED BY <3>1 DEF Has
    <2>5. job[c].op = "commit" /\ Has(rest, {"settle"}) /\ ~ Has(rest, {"write"})
            => lock'.writer = c
      <3> SUFFICES ASSUME job[c].op = "commit", Has(rest, {"settle"}), ~ Has(rest, {"write"}),
                          step # "write"
                   PROVE  lock'.writer = c
        OBVIOUS
      <3>1. Has(todo, {"settle"}) /\ ~ Has(todo, {"write"})
        BY <2>3
      <3>2. lock.writer = c /\ step # "drop"
        BY <1>0, <2>4, <3>1 DEF ClientInv, CommitOrder
      <3> QED BY <3>2
    <2>6. lock'.writer = c => DropsFirst(rest)
      BY <1>0, <2>2 DEF ClientInv
    <2>7. w => ~ Has(rest, Naming)
      BY <1>0, <2>2, <2>3 DEF ClientInv
    <2>8. job[c].op # "none" /\ job[c].answer = NoAnswer /\ NoAnswer.cause \notin Refusals
      BY <1>0 DEF ClientInv, NoAnswer, Refusals
    <2> HIDE DEF todo, step, rest
    <2> QED BY <2>1, <2>2, <2>5, <2>6, <2>7, <2>8 DEF ClientInv
  <1>4. WriterAlone(lock') /\ PoisonedOnlyBranchless'
    BY <1>0 DEF SameForOthers, PoisonedOnlyBranchless
  <1> QED BY <1>1, <1>2, <1>3, <1>4 DEF Inv

(* So does an answer that gives up the lock.                                 *)
LEMMA EndingKeeps ==
    ASSUME Inv, NEW c \in Clients, NEW cause, Ends(c, cause),
           cause \in Refusals => ~ job[c].wrote,
           SameForOthers(c), lock'.writer # c,
           memory' = memory,
           lock'.poisoned => lock.poisoned \/ ~ memory.branches
    PROVE  Inv'
PROOF
  <1>1. TypeInv'
    BY DEF Ends, SameForOthers, TypeInv, Inv
  <1>2. ASSUME NEW d \in Clients \ {c}
        PROVE  ClientInv(job'[d], lock', d)
    <2>1. ClientInv(job[d], lock, d) /\ job'[d] = job[d]
      BY DEF Inv, Ends
    <2>2. lock'.writer = d <=> lock.writer = d
      BY DEF SameForOthers
    <2> QED BY <2>1, <2>2 DEF ClientInv
  <1>3. ClientInv(job'[c], lock', c)
    BY EmptyTodo DEF Ends, ClientInv
  <1>4. WriterAlone(lock') /\ PoisonedOnlyBranchless'
    BY DEF SameForOthers, PoisonedOnlyBranchless, Inv
  <1> QED BY <1>1, <1>2, <1>3, <1>4 DEF Inv

LEMMA SameLock ==
    ASSUME Inv, lock' = lock, NEW c
    PROVE  SameForOthers(c) /\ lock'.poisoned = lock.poisoned
PROOF
  BY DEF Inv, TypeInv, SameForOthers

LEMMA ReleasedLock ==
    ASSUME Inv, NEW c \in Clients
    PROVE  /\ Released(c) \in Locks
           /\ Released(c).poisoned = lock.poisoned /\ Released(c).writer # c
           /\ \A d \in Clients \ {c} : Released(c).writer = d <=> lock.writer = d
           /\ WriterAlone(Released(c))
PROOF
  <1>1. lock \in Locks /\ WriterAlone(lock)
    BY DEF Inv, TypeInv
  <1>2. /\ Released(c) \in Locks
        /\ Released(c).readers = lock.readers \ {c}
        /\ Released(c).writer = IF lock.writer = c THEN NoClient ELSE lock.writer
        /\ Released(c).poisoned = lock.poisoned
    BY <1>1 DEF Released, Locks
  <1> QED BY <1>1, <1>2, NoClientAssumption DEF WriterAlone

LEMMA ReleaseGivesUp ==
    ASSUME Inv, NEW c \in Clients, lock' = Released(c)
    PROVE  SameForOthers(c) /\ lock'.writer # c /\ lock'.poisoned = lock.poisoned
PROOF
  BY ReleasedLock DEF SameForOthers

LEMMA HeadIsLeft ==
    ASSUME Inv, NEW c \in Clients, NEW step, At(c, step)
    PROVE  /\ c \in Running /\ job[c].running
           /\ job[c].todo # << >> /\ Head(job[c].todo) = step
           /\ \A S : step \in S => Has(job[c].todo, S)
           /\ lock.writer = c => step \notin Panicking
PROOF
  <1>1. /\ c \in Running /\ job[c].running
        /\ job[c].todo # << >> /\ Head(job[c].todo) = step
    BY DEF At, Running
  <1>2. job[c].todo \in Seq(Steps) /\ ClientInv(job[c], lock, c)
    BY JobType DEF Inv
  <1>3. 1 \in 1..Len(job[c].todo) /\ job[c].todo[1] = step
    BY <1>1, <1>2
  <1>4. \A S : step \in S => Has(job[c].todo, S)
    BY <1>3 DEF Has
  <1>5. ASSUME lock.writer = c, step \in Panicking
        PROVE  FALSE
    <2>1. PICK i \in 1..Len(job[c].todo) : i < 1
      BY <1>2, <1>3, <1>5 DEF ClientInv, DropsFirst
    <2> QED BY <2>1
  <1> QED BY <1>1, <1>4, <1>5

(* A step that leaves the lock alone.                                        *)
LEMMA PlainStep ==
    ASSUME Inv, NEW c \in Clients, NEW step, At(c, step),
           step \notin {"write", "drop"},
           \/ Next1(c)
           \/ /\ step \in Writing
              /\ job' = [job EXCEPT ![c].todo = Tail(@), ![c].wrote = TRUE],
           lock' = lock,
           memory' \in [branches : BOOLEAN, stale : BOOLEAN],
           memory'.branches = memory.branches
    PROVE  Inv'
PROOF
  <1>1. TypeInv /\ c \in Running /\ job[c].todo # << >> /\ Head(job[c].todo) = step
    BY HeadIsLeft DEF Inv
  <1>2. PICK w \in BOOLEAN : Passes(c, w) /\ (w = job[c].wrote \/ step \in Writing)
    BY <1>1, JobType, NextPasses
  <1> QED BY <1>1, <1>2, SameLock, PassingKeeps

(* A handler that ends without a panic.                                      *)
LEMMA FailedStep ==
    ASSUME Inv, NEW c \in Clients, NEW code \in Codes, NEW cause \in Causes,
           cause \in Refusals => ~ job[c].wrote,
           Fails(c, code, cause)
    PROVE  Inv'
PROOF
  <1>1. Ends(c, cause) /\ lock' = Released(c) /\ memory' = memory
    BY AnsweredEnds DEF Inv, Fails
  <1> QED BY <1>1, ReleaseGivesUp, EndingKeeps

LEMMA PanickingStep ==
    ASSUME Inv, NEW c \in Clients, Panics(c),
           lock.writer = c => ~ memory.branches
    PROVE  Inv'
PROOF
  <1> DEFINE code == IF transport = "grpc" THEN "INTERNAL_ERROR" ELSE "dropped"
  <1>1. code \in Codes /\ "panic" \in Causes /\ "panic" \notin Refusals
    BY DEF Codes, Causes, Refusals
  <1>2. Ends(c, "panic") /\ memory' = memory
    BY <1>1, AnsweredEnds DEF Inv, Panics
  <1>3. lock' = [Released(c) EXCEPT !.poisoned = @ \/ lock.writer = c]
    BY DEF Panics
  <1>4. Released(c) \in Locks /\ Released(c).poisoned = lock.poisoned
    BY ReleasedLock
  <1>5. /\ lock' \in Locks
        /\ lock'.readers = Released(c).readers /\ lock'.writer = Released(c).writer
        /\ lock'.poisoned => lock.poisoned \/ lock.writer = c
    BY <1>3, <1>4 DEF Locks
  <1>6. SameForOthers(c) /\ lock'.writer # c
    BY <1>5, ReleasedLock DEF SameForOthers, WriterAlone
  <1> QED BY <1>1, <1>2, <1>5, <1>6, EndingKeeps

-----------------------------------------------------------------------------
(* The steps                                                                 *)

LEMMA ErrorCodes ==
    /\ \A variant : MapError(variant) \in Codes
    /\ \A op : UnknownCode(op) \in Codes
    /\ {"OK", "INVALID_PARAMS", "INTERNAL_ERROR"} \subseteq Codes
    /\ Refusals \subseteq Causes
    /\ {"done", "gone", "refused", "call", "poisoned"} \subseteq Causes \ Refusals
PROOF
  <1>1. \A variant : MapError(variant) \in Codes
    BY DEF MapError, Codes
  <1>2. \A op : UnknownCode(op) \in Codes
    BY <1>1 DEF UnknownCode
  <1> QED BY <1>1, <1>2 DEF Codes, Causes, Refusals

LEMMA NotYetWritten ==
    ASSUME Inv, NEW c \in Clients, NEW step, At(c, step), step \in Naming
    PROVE  ~ job[c].wrote
PROOF
  BY HeadIsLeft DEF Inv, ClientInv

LEMMA MemoryType ==
    ASSUME Inv
    PROVE  /\ memory \in [branches : BOOLEAN, stale : BOOLEAN]
           /\ \A b \in BOOLEAN : /\ [memory EXCEPT !.stale = b] \in [branches : BOOLEAN, stale : BOOLEAN]
                                 /\ [memory EXCEPT !.stale = b].branches = memory.branches
PROOF
  BY DEF Inv, TypeInv

(* Names: a request is refused before it has written anything.               *)
LEMMA NamingSteps ==
    ASSUME Inv, NEW c \in Clients, Parse(c) \/ Find(c) \/ Recall(c) \/ Again(c) \/ Taken(c) \/ Refuse(c)
    PROVE  Inv'
PROOF
  <1>0. memory \in [branches : BOOLEAN, stale : BOOLEAN]
    BY MemoryType
  <1>1. ASSUME NEW step \in {"parse", "find", "recall", "again", "taken", "refuse"}, At(c, step), Next1(c),
               UNCHANGED <<lock, memory>>
        PROVE  Inv'
    BY <1>0, <1>1, PlainStep
  <1>2. ASSUME NEW step \in Naming, At(c, step),
               NEW cause \in Refusals, NEW code \in Codes, Fails(c, code, cause)
        PROVE  Inv'
    BY <1>2, NotYetWritten, ErrorCodes, FailedStep
  <1>3. CASE Parse(c)
    BY <1>1, <1>2, <1>3, ErrorCodes DEF Parse, Naming, Refusals
  <1>4. CASE Find(c)
    BY <1>1, <1>2, <1>4, ErrorCodes DEF Find, Naming, Refusals
  <1>5. CASE Taken(c)
    BY <1>1, <1>2, <1>5, ErrorCodes DEF Taken, Naming, Refusals
  <1>6. CASE Refuse(c)
    <2>1. ASSUME Fails(c, MapError("Checkpoint"), "refused")
          PROVE  Inv'
      BY <2>1, ErrorCodes, FailedStep
    <2> QED BY <1>1, <1>6, <2>1 DEF Refuse
  <1>7. CASE Recall(c)
    BY <1>1, <1>2, <1>7, ErrorCodes DEF Recall, Naming, Refusals
  <1>8. CASE Again(c)
    <2>1. ASSUME Fails(c, MapError("Storage"), "gone")
          PROVE  Inv'
      BY <2>1, ErrorCodes, FailedStep
    <2> QED BY <1>1, <1>8, <2>1 DEF Again
  <1> QED BY <1>3, <1>4, <1>5, <1>6, <1>7, <1>8

(* The two connections there are mutexes for.                                *)
Connections == DOMAIN mutex = {"db", "backup"}

LEMMA ConnectionsStay ==
    ASSUME Connections, [Next]_vars
    PROVE  Connections'
PROOF
  <1> USE DEF Connections
  <1>1. ASSUME NEW c \in Clients, NEW code, NEW cause, Answered(c, code, cause)
        PROVE  Connections'
    BY <1>1 DEF Answered
  <1>2. ASSUME NEW c \in Clients, NEW code, NEW cause, Fails(c, code, cause)
        PROVE  Connections'
    BY <1>1, <1>2 DEF Fails
  <1>3. ASSUME NEW c \in Clients, Panics(c)
        PROVE  Connections'
    BY <1>1, <1>3 DEF Panics
  <1>4. ASSUME NEW c \in Clients, Parse(c) \/ Find(c) \/ Recall(c) \/ Again(c) \/ Taken(c) \/ Refuse(c)
        PROVE  Connections'
    BY <1>2, <1>4 DEF Parse, Find, Recall, Again, Taken, Refuse
  <1>5. ASSUME NEW c \in Clients, NEW m, Acquire(c, m) \/ Release(c, m)
        PROVE  Connections'
    BY <1>5 DEF Acquire, Release
  <1>6. ASSUME NEW c \in Clients, CallFails(c) \/ WaitToWrite(c) \/ LockWrite(c) \/ LockRead(c)
                                  \/ Drop(c) \/ Answer(c)
        PROVE  Connections'
    BY <1>1, <1>2, <1>6 DEF CallFails, WaitToWrite, LockWrite, LockRead, Drop, Answer
  <1>7. ASSUME NEW c \in Clients, Put(c) \/ Current(c) \/ Move(c) \/ Settle(c) \/ Compare(c)
        PROVE  Connections'
    BY <1>3, <1>7 DEF Put, Current, Move, Settle, Compare
  <1>8. ASSUME NEW c \in Clients, Fresh(c) \/ Diverge(c) \/ Remove(c) \/ Sync(c) \/ Clear(c)
        PROVE  Connections'
    BY <1>3, <1>8 DEF Fresh, Diverge, Remove, Sync, Clear
  <1>9. ASSUME OpenService
        PROVE  Connections'
    BY <1>9 DEF OpenService
  <1>10. ASSUME NEW c \in Clients, Receive(c) \/ Reject(c) \/ Start(c)
         PROVE  Connections'
    BY <1>9, <1>10 DEF Receive, Reject, Start
  <1>11. CASE UNCHANGED vars
    BY <1>11 DEF vars
  <1> HIDE DEF Connections
  <1> QED
    BY <1>4, <1>5, <1>6, <1>7, <1>8, <1>9, <1>10, <1>11 DEF Next, Restart, Serve, Step

(* The connection and the backup database.                                   *)
LEMMA CallSteps ==
    ASSUME Inv, Connections, NEW c \in Clients,
           CallFails(c) \/ Answer(c) \/ \E m \in DOMAIN mutex : Acquire(c, m) \/ Release(c, m)
    PROVE  Inv'
PROOF
  <1>0. memory \in [branches : BOOLEAN, stale : BOOLEAN]
    BY MemoryType
  <1>1. CASE CallFails(c)
    BY <1>1, ErrorCodes, FailedStep DEF CallFails
  <1>2. CASE Answer(c)
    <2>1. Fails(c, "OK", "done")
      BY <1>2 DEF Answer, Fails
    <2> QED BY <2>1, ErrorCodes, FailedStep
  <1>3. ASSUME NEW m \in {"db", "backup"}, Acquire(c, m)
        PROVE  Inv'
    BY <1>0, <1>3, PlainStep DEF Acquire
  <1>4. ASSUME NEW m, Release(c, m)
        PROVE  Inv'
    <2>1. /\ At(c, IF m = "db" THEN "/db" ELSE "/backup")
          /\ Next1(c) /\ UNCHANGED <<lock, memory, table, cleaned>>
      BY <1>4 DEF Release
    <2> QED BY <1>0, <2>1, PlainStep
  <1> QED BY <1>1, <1>2, <1>3, <1>4 DEF Connections

(* The lock around the repository: taken by one writer, when no one reads.   *)
LEMMA LockSteps ==
    ASSUME Inv, NEW c \in Clients,
           WaitToWrite(c) \/ LockWrite(c) \/ LockRead(c) \/ Drop(c)
    PROVE  Inv'
PROOF
  <1>0. /\ TypeInv /\ lock \in Locks /\ WriterAlone(lock)
        /\ memory \in [branches : BOOLEAN, stale : BOOLEAN]
        /\ PoisonedOnlyBranchless
    BY DEF Inv, TypeInv
  <1>1. CASE WaitToWrite(c)
    <2>1. /\ UNCHANGED <<job, memory>>
          /\ lock' = [lock EXCEPT !.waiting = @ \cup {c}]
      BY <1>1 DEF WaitToWrite
    <2>2. /\ lock' \in Locks /\ lock'.writer = lock.writer /\ lock'.readers = lock.readers
          /\ lock'.poisoned = lock.poisoned
      BY <1>0, <2>1 DEF Locks
    <2>3. TypeInv' /\ WriterAlone(lock') /\ PoisonedOnlyBranchless'
      BY <1>0, <2>1, <2>2 DEF TypeInv, WriterAlone, PoisonedOnlyBranchless
    <2>4. ASSUME NEW d \in Clients
          PROVE  ClientInv(job'[d], lock', d)
      <3>1. ClientInv(job[d], lock, d)
        BY DEF Inv
      <3> QED BY <2>1, <2>2, <3>1 DEF ClientInv
    <2> QED BY <2>3, <2>4 DEF Inv
  <1>2. CASE LockWrite(c)
    <2>0. /\ At(c, "write") /\ lock.readers = {} /\ lock.writer = NoClient /\ memory' = memory
      BY <1>2 DEF LockWrite
    <2>1. CASE lock.poisoned
      <3>1. /\ Answered(c, "INTERNAL_ERROR", "poisoned")
            /\ lock' = [lock EXCEPT !.waiting = @ \ {c}]
        BY <1>2, <2>1 DEF LockWrite
      <3>2. /\ lock' \in Locks /\ lock'.writer = lock.writer /\ lock'.readers = lock.readers
            /\ lock'.poisoned = lock.poisoned
        BY <1>0, <3>1 DEF Locks
      <3>3. SameForOthers(c) /\ lock'.writer # c
        BY <1>0, <2>0, <3>2, NoClientAssumption DEF SameForOthers, WriterAlone
      <3>4. Ends(c, "poisoned")
        BY <1>0, <3>1, AnsweredEnds, ErrorCodes
      <3> QED BY <2>0, <3>2, <3>3, <3>4, ErrorCodes, EndingKeeps
    <2>2. CASE ~ lock.poisoned
      <3>1. /\ Next1(c)
            /\ lock' = [lock EXCEPT !.writer = c, !.waiting = @ \ {c}]
        BY <1>2, <2>2 DEF LockWrite
      <3>2. /\ lock' \in Locks /\ lock'.writer = c /\ lock'.readers = {}
            /\ lock'.poisoned = lock.poisoned
        BY <1>0, <2>0, <3>1 DEF Locks
      <3>3. SameForOthers(c)
        BY <2>0, <3>2, NoClientAssumption DEF SameForOthers, WriterAlone
      <3>4. PICK w \in BOOLEAN : Passes(c, w) /\ w = job[c].wrote
        BY <1>0, <2>0, <3>1, HeadIsLeft, JobType, NextPasses
      <3>5. c \in Running /\ job[c].todo # << >> /\ Head(job[c].todo) = "write"
        BY <2>0, HeadIsLeft
      <3> QED BY <1>0, <2>0, <3>2, <3>3, <3>4, <3>5, PassingKeeps
    <2> QED BY <2>1, <2>2
  <1>3. CASE LockRead(c)
    <2>0. At(c, "read") /\ lock.writer = NoClient /\ memory' = memory
      BY <1>3 DEF LockRead
    <2>1. CASE lock.poisoned
      <3>1. Answered(c, "INTERNAL_ERROR", "poisoned") /\ lock' = lock
        BY <1>3, <2>1 DEF LockRead
      <3>2. Ends(c, "poisoned")
        BY <1>0, <3>1, AnsweredEnds, ErrorCodes
      <3> QED BY <2>0, <3>1, <3>2, SameLock, NoClientAssumption, ErrorCodes, EndingKeeps
    <2>2. CASE ~ lock.poisoned
      <3>1. Next1(c) /\ lock' = [lock EXCEPT !.readers = @ \cup {c}]
        BY <1>3, <2>2 DEF LockRead
      <3>2. /\ lock' \in Locks /\ lock'.writer = NoClient
            /\ lock'.poisoned = lock.poisoned
        BY <1>0, <2>0, <3>1 DEF Locks
      <3>3. SameForOthers(c)
        BY <2>0, <3>2, NoClientAssumption DEF SameForOthers, WriterAlone
      <3>4. PICK w \in BOOLEAN : Passes(c, w) /\ w = job[c].wrote
        BY <1>0, <2>0, <3>1, HeadIsLeft, JobType, NextPasses
      <3>5. c \in Running /\ job[c].todo # << >> /\ Head(job[c].todo) = "read"
        BY <2>0, HeadIsLeft
      <3> QED BY <1>0, <2>0, <3>2, <3>3, <3>4, <3>5, NoClientAssumption, PassingKeeps
    <2> QED BY <2>1, <2>2
  <1>4. CASE Drop(c)
    <2>0. At(c, "drop") /\ Next1(c) /\ lock' = Released(c) /\ memory' = memory
      BY <1>4 DEF Drop
    <2>1. SameForOthers(c) /\ lock'.writer # c /\ lock'.poisoned = lock.poisoned
      BY <2>0, ReleaseGivesUp
    <2>2. PICK w \in BOOLEAN : Passes(c, w) /\ w = job[c].wrote
      BY <1>0, <2>0, HeadIsLeft, JobType, NextPasses
    <2>3. c \in Running /\ job[c].todo # << >> /\ Head(job[c].todo) = "drop"
      BY <2>0, HeadIsLeft
    <2> QED BY <1>0, <2>0, <2>1, <2>2, <2>3, PassingKeeps
  <1> QED BY <1>1, <1>2, <1>3, <1>4

(* The repository and the tables: what panics does so without the lock, but  *)
(* for the index into an empty vector of branches.                           *)
LEMMA RepositorySteps ==
    ASSUME Inv, NEW c \in Clients,
           \/ Put(c) \/ Current(c) \/ Move(c) \/ Settle(c) \/ Compare(c)
           \/ Fresh(c) \/ Diverge(c) \/ Remove(c) \/ Sync(c) \/ Clear(c)
    PROVE  Inv'
PROOF
  <1>0. /\ memory \in [branches : BOOLEAN, stale : BOOLEAN]
        /\ memory.stale \in BOOLEAN
    BY MemoryType
  <1> DEFINE Plain == {"current", "move", "settle", "compare", "fresh", "diverge", "remove", "sync"}
  <1>1. ASSUME NEW step \in Plain, At(c, step), Next1(c), lock' = lock,
               memory' \in {memory} \cup {[memory EXCEPT !.stale = b] : b \in BOOLEAN}
        PROVE  Inv'
    BY <1>0, <1>1, MemoryType, PlainStep
  <1>2. ASSUME NEW step \in Writing, At(c, step), lock' = lock,
               job' = [job EXCEPT ![c].todo = Tail(@), ![c].wrote = TRUE],
               memory' \in {memory} \cup {[memory EXCEPT !.stale = b] : b \in BOOLEAN}
        PROVE  Inv'
    <2>1. step \notin {"write", "drop"}
      BY DEF Writing
    <2> QED BY <1>0, <1>2, <2>1, MemoryType, PlainStep
  <1>3. ASSUME NEW step \in Panicking, At(c, step), Panics(c)
        PROVE  Inv'
    BY <1>3, HeadIsLeft, PanickingStep
  <1>4. CASE Put(c) \/ Clear(c)
    BY <1>2, <1>4 DEF Put, Clear, Writing
  <1>5. CASE Current(c)
    <2>1. CASE memory.branches
      BY <1>1, <1>5, <2>1 DEF Current
    <2>2. CASE ~ memory.branches
      BY <1>5, <2>2, PanickingStep DEF Current
    <2> QED BY <2>1, <2>2
  <1>6. CASE Move(c) \/ Settle(c)
    BY <1>0, <1>1, <1>6 DEF Move, Settle
  <1>7. CASE Diverge(c) \/ Remove(c)
    BY <1>1, <1>7 DEF Diverge, Remove
  <1>8. CASE Compare(c)
    BY <1>1, <1>3, <1>8 DEF Compare, Panicking
  <1>9. CASE Fresh(c)
    BY <1>1, <1>3, <1>9 DEF Fresh, Panicking
  <1>10. CASE Sync(c)
    BY <1>1, <1>3, <1>10 DEF Sync, Panicking
  <1> QED BY <1>4, <1>5, <1>6, <1>7, <1>8, <1>9, <1>10

-----------------------------------------------------------------------------
(* Requests come and go                                                      *)

LEMMA OpenedMemory ==
    \A t : Opened(t) \in [branches : BOOLEAN, stale : BOOLEAN]
PROOF
  BY DEF Opened

LEMMA FreeLock ==
    Free \in Locks /\ Free.writer = NoClient /\ Free.poisoned = FALSE /\ WriterAlone(Free)
PROOF
  BY DEF Free, Locks, WriterAlone

LEMMA IdleJob ==
    /\ Idle \in Jobs /\ Idle.todo = << >> /\ Idle.op = "none"
    /\ Idle.running = FALSE /\ Idle.wrote = FALSE /\ Idle.answer = NoAnswer
    /\ NoAnswer.cause \notin Refusals
PROOF
  BY EmptyTodo DEF Idle, Jobs, NoAnswer, Codes, Causes, Refusals

(* A request that no thread runs holds no lock: its job may be given back or *)
(* replaced, and the service opened again.                                   *)
Resting(j) ==
    /\ ~ j.running
    /\ Orderly(j.todo)
    /\ j.op = "commit" => /\ CommitOrder(j.todo)
                          /\ Has(j.todo, {"settle"}) => Has(j.todo, {"write"})
    /\ j.wrote => ~ Has(j.todo, Naming)
    /\ j.answer.cause \in Refusals => ~ j.wrote

LEMMA RestingInv ==
    ASSUME Inv, NEW c \in Clients
    PROVE  /\ ~ job[c].running => Resting(job[c]) /\ lock.writer # c
           /\ \A j, l : Resting(j) /\ l.writer # c => ClientInv(j, l, c)
PROOF
  <1>1. ClientInv(job[c], lock, c)
    BY DEF Inv
  <1> QED BY <1>1 DEF ClientInv, Resting

LEMMA NewJobRests ==
    ASSUME NEW op \in Ops \cap Served, NEW n \in Names(op),
           NEW j, j = [Idle EXCEPT !.op = op, !.names = n, !.todo = Program(op)]
    PROVE  j \in Jobs /\ Resting(j)
PROOF
  <1>1. n \in {"known", "unknown", "malformed", "taken", "garbled"}
    BY DEF Names
  <1>2. Orderly(Program(op)) /\ Program(op) \in Seq(Steps)
    BY ProgramsAreOrderly DEF Orderly
  <1>3. /\ j \in Jobs /\ j.op = op /\ j.todo = Program(op)
        /\ ~ j.running /\ ~ j.wrote
    BY <1>1, <1>2, IdleJob DEF Jobs
  <1>4. Has(Program("commit"), {"write"})
    <2>1. Program("commit") = CommitStaged
      BY DEF Program
    <2>2. 3 \in 1..Len(CommitStaged) /\ CommitStaged[3] = "write"
      BY DEF CommitStaged, Call, Write
    <2> QED BY <2>1, <2>2 DEF Has
  <1> QED BY <1>2, <1>3, <1>4, CommitIsOrdered DEF Resting

LEMMA TransportSteps ==
    ASSUME Inv, NEW c \in Clients, Receive(c) \/ Reject(c) \/ Start(c)
    PROVE  Inv'
PROOF
  <1>0. /\ TypeInv /\ job \in [Clients -> Jobs] /\ job[c] \in Jobs
        /\ ClientInv(job[c], lock, c) /\ WriterAlone(lock) /\ PoisonedOnlyBranchless
    BY DEF Inv, TypeInv
  <1>1. CASE Receive(c)
    <2>1. PICK op \in Ops \cap Served : \E n \in Names(op) :
             job' = [job EXCEPT ![c] = [Idle EXCEPT !.op = op, !.names = n, !.todo = Program(op)]]
      BY <1>1 DEF Receive
    <2>2. /\ job' \in [Clients -> Jobs] /\ Resting(job'[c])
          /\ \A d \in Clients \ {c} : job'[d] = job[d]
      BY <1>0, <2>1, NewJobRests
    <2>3. ~ job[c].running
      BY <1>0, <1>1 DEF Receive, Busy, ClientInv
    <2>4. CASE UNCHANGED <<lock, mutex, memory, table, cleaned>>
      <3>1. ASSUME NEW d \in Clients
            PROVE  ClientInv(job'[d], lock', d)
        BY <2>2, <2>3, <2>4, RestingInv DEF Inv
      <3> QED BY <1>0, <2>2, <2>4, <3>1 DEF Inv, TypeInv, PoisonedOnlyBranchless
    <2>5. CASE OpenService /\ \A d \in Clients : ~ Busy(d)
      <3>1. lock' = Free /\ memory' = Opened(table)
        BY <2>5 DEF OpenService
      <3>2. ASSUME NEW d \in Clients \ {c}
            PROVE  ClientInv(job'[d], lock', d)
        <4>1. ~ job[d].running
          <5>1. ClientInv(job[d], lock, d)
            BY DEF Inv
          <5> QED BY <2>5, <5>1 DEF Busy, ClientInv
        <4> QED BY <2>2, <3>1, <4>1, RestingInv, FreeLock, NoClientAssumption
      <3>3. ClientInv(job'[c], lock', c)
        BY <2>2, <3>1, RestingInv, FreeLock, NoClientAssumption
      <3>4. TypeInv' /\ WriterAlone(lock') /\ PoisonedOnlyBranchless'
        BY <2>2, <3>1, FreeLock, OpenedMemory DEF TypeInv, PoisonedOnlyBranchless
      <3> QED BY <3>2, <3>3, <3>4 DEF Inv
    <2> QED BY <1>1, <2>4, <2>5 DEF Receive
  <1>2. CASE Reject(c)
    <2> DEFINE j == [job[c] EXCEPT !.todo = << >>,
                                   !.answer = [code |-> "rejected", cause |-> "garbled"]]
    <2>1. /\ job' = [job EXCEPT ![c] = j]
          /\ UNCHANGED <<lock, memory>> /\ ~ job[c].running
      BY <1>0, <1>2 DEF Reject, Running
    <2>2. j \in Jobs /\ Resting(j)
      BY <1>0, <2>1, EmptyTodo DEF Jobs, Codes, Causes, Refusals, Resting
    <2> HIDE DEF j
    <2>3. /\ job' \in [Clients -> Jobs] /\ Resting(job'[c])
          /\ \A d \in Clients \ {c} : job'[d] = job[d]
      BY <1>0, <2>1, <2>2
    <2>4. ASSUME NEW d \in Clients
          PROVE  ClientInv(job'[d], lock', d)
      BY <2>1, <2>3, RestingInv DEF Inv
    <2> QED BY <1>0, <2>1, <2>3, <2>4 DEF Inv, TypeInv, PoisonedOnlyBranchless
  <1>3. CASE Start(c)
    <2> DEFINE j == [job[c] EXCEPT !.running = TRUE]
    <2>1. /\ job' = [job EXCEPT ![c] = j] /\ UNCHANGED <<lock, memory>>
          /\ ~ job[c].running /\ job[c].op # "none" /\ job[c].answer = NoAnswer
      BY <1>0, <1>3 DEF Start, Running, Busy
    <2>2. /\ j \in Jobs /\ j.todo = job[c].todo /\ j.op = job[c].op /\ j.wrote = job[c].wrote
          /\ j.answer = job[c].answer
      BY <1>0 DEF Jobs
    <2>3. lock.writer # c
      BY <2>1, RestingInv
    <2> HIDE DEF j
    <2>4. /\ job' \in [Clients -> Jobs] /\ job'[c] = j
          /\ \A d \in Clients \ {c} : job'[d] = job[d]
      BY <1>0, <2>1, <2>2
    <2>5. ClientInv(job'[c], lock', c)
      BY <1>0, <2>1, <2>2, <2>3, <2>4 DEF ClientInv
    <2>6. ASSUME NEW d \in Clients \ {c}
          PROVE  ClientInv(job'[d], lock', d)
      BY <2>1, <2>4 DEF Inv
    <2> QED BY <1>0, <2>1, <2>4, <2>5, <2>6 DEF Inv, TypeInv, PoisonedOnlyBranchless
  <1> QED BY <1>1, <1>2, <1>3

LEMMA RestartInv ==
    ASSUME Inv, Restart
    PROVE  Inv'
PROOF
  <1>0. job \in [Clients -> Jobs]
    BY DEF Inv, TypeInv
  <1>1. lock' = Free /\ memory' = Opened(table)
    BY DEF Restart, OpenService
  <1>2. ASSUME NEW c \in Clients
        PROVE  job'[c] \in Jobs /\ Resting(job'[c])
    <2> DEFINE j == [job[c] EXCEPT !.todo = << >>, !.running = FALSE,
                                   !.answer = [code |-> "dropped", cause |-> "stop"]]
    <2>1. job'[c] = IF Busy(c) THEN j ELSE job[c]
      BY DEF Restart
    <2>2. job[c] \in Jobs /\ ClientInv(job[c], lock, c)
      BY <1>0 DEF Inv
    <2>3. j \in Jobs /\ Resting(j)
      BY <2>2, EmptyTodo DEF Jobs, Codes, Causes, Refusals, Resting
    <2>4. ~ Busy(c) => Resting(job[c])
      BY <2>2, RestingInv DEF Busy, ClientInv
    <2> HIDE DEF j
    <2> QED BY <2>1, <2>2, <2>3, <2>4
  <1>3. job' \in [Clients -> Jobs]
    BY <1>2 DEF Restart
  <1>4. \A c \in Clients : ClientInv(job'[c], lock', c)
    BY <1>1, <1>2, RestingInv, FreeLock, NoClientAssumption
  <1> QED BY <1>1, <1>3, <1>4, FreeLock, OpenedMemory DEF Inv, TypeInv, PoisonedOnlyBranchless

LEMMA InitInv ==
    ASSUME Init
    PROVE  Inv /\ Connections
PROOF
  <1>1. /\ job = [c \in Clients |-> Idle] /\ lock = Free /\ memory = Opened(table)
        /\ Connections
    BY DEF Init, Connections
  <1>2. TypeInv
    BY <1>1, IdleJob, FreeLock, OpenedMemory DEF TypeInv
  <1>3. ASSUME NEW c \in Clients
        PROVE  ClientInv(job[c], lock, c)
    BY <1>1, IdleJob, EmptyTodo, FreeLock, NoClientAssumption DEF ClientInv
  <1> QED BY <1>1, <1>2, <1>3, FreeLock DEF Inv, PoisonedOnlyBranchless

LEMMA NextInv ==
    ASSUME Inv, Connections, [Next]_vars
    PROVE  Inv' /\ Connections'
PROOF
  <1>1. CASE UNCHANGED vars
    BY <1>1 DEF vars, Inv, TypeInv, PoisonedOnlyBranchless, Connections
  <1>2. ASSUME NEW c \in Clients, Step(c)
        PROVE  Inv'
    BY <1>2, NamingSteps, CallSteps, LockSteps, RepositorySteps DEF Step
  <1> QED BY <1>1, <1>2, TransportSteps, RestartInv, ConnectionsStay DEF Next, Serve

(* The invariant behind what follows: the lock's writer alone is past the    *)
(* step that takes it, and requests have their steps left in order.          *)
THEOREM Invariance == Spec => [](Inv /\ Connections)
PROOF
  BY InitInv, NextInv, PTL DEF Spec

(* Between the move of the head and the entry of the checkpoint a commit is  *)
(* the only one at the repository, whatever the other clients ask.           *)
THEOREM CommitsUnseen == Spec => []CommitUnseen
PROOF
  <1>1. Inv => CommitUnseen
    <2> SUFFICES ASSUME Inv, NEW c \in Clients, NEW d \in Clients,
                        HalfCommitted(c), d \in lock.readers \cup {lock.writer}
                 PROVE  d = c
      BY DEF CommitUnseen
    <2>1. /\ ClientInv(job[c], lock, c) /\ WriterAlone(lock)
          /\ job[c].todo \in Seq(Steps) /\ job[c].op = "commit"
      BY JobType DEF Inv, HalfCommitted
    <2>2. ~ Has(job[c].todo, {"move"}) /\ Has(job[c].todo, {"settle"})
      BY <2>1 DEF HalfCommitted, Has
    <2>3. ~ Has(job[c].todo, {"write"})
      BY <2>1, <2>2 DEF ClientInv, CommitOrder, Has
    <2>4. lock.writer = c
      BY <2>1, <2>2, <2>3 DEF ClientInv
    <2> QED BY <2>1, <2>4, NoClientAssumption DEF WriterAlone
  <1> QED BY <1>1, Invariance, PTL

(* Only a service opened without a branch ever poisons its lock.             *)
THEOREM PoisonIsBranchless == Spec => []PoisonedOnlyBranchless
PROOF
  <1>1. Inv => PoisonedOnlyBranchless
    BY DEF Inv
  <1> QED BY <1>1, Invariance, PTL

(* A request refused for its names has written nothing, but for the second   *)
(* lookup of a switch, whose refusal is not one of these.                    *)
THEOREM RefusalsAreClean == Spec => []RefusalsChangeNothing
PROOF
  <1>1. Inv => RefusalsChangeNothing
    BY DEF Inv, ClientInv, RefusalsChangeNothing, Refusals
  <1> QED BY <1>1, Invariance, PTL
=============================================================================
