----------------------------- MODULE LifecycleProofs -----------------------------
(***************************************************************************)
(* How a process ends, for any number of servers, workers and requests:    *)
(* what the teardown waits for, what it leaves, and the exit code.         *)
(***************************************************************************)
EXTENDS Lifecycle, TLAPS

\* The default prover; the leaves that need arithmetic or sequences name SMT.
USE Zenon

-----------------------------------------------------------------------------
(* The inductive invariant.                                                *)

\* The number of public servers, and the closers in the order they are added.
N == Len(Servers)

Item(i) ==
  IF i = 1 THEN "admin" ELSE IF i = 2 THEN "pg" ELSE IF i = 3 THEN "kafka"
  ELSE IF i = 4 THEN "consumer" ELSE IF i = 5 THEN "consumers-cancel"
  ELSE IF i <= 5 + N THEN Servers[i - 5] ELSE "drain-gate"

\* How many closers are left, and how many of them have not begun.
Left == Len(closer)
Unbegun == IF phase = "wait" THEN Left - 1 ELSE Left

Closers == {"admin", "pg", "kafka", "consumer", "consumers-cancel", "drain-gate"}
             \cup ServerNames

BootType ==
  /\ adminBindOptional \in BOOLEAN
  /\ main \in {"build", "admin", "launch", "servers", "run", "closing", "exited"}
  /\ started \in BOOLEAN /\ goroutines \subseteq Workers \cup {Late}
  /\ next \in 1..N + 1 /\ failed \in BOOLEAN /\ code \in {0, 1}
TeardownType ==
  /\ closer \in Seq(Closers) /\ phase \in {"next", "wait"} /\ expired \in BOOLEAN
  /\ errs \in BOOLEAN /\ open \subseteq Resources /\ ready \in BOOLEAN
ServingType ==
  /\ listener \in [ServerNames -> {"none", "serving", "dead", "shut"}]
  /\ notify \in [ServerNames -> {"empty", "error", "closed"}]
  /\ watcher \in [ServerNames -> {"none", "running", "done"}]
EndingType ==
  /\ fatal \in BOOLEAN /\ watch \in {"none", "waiting", "seen", "done"}
  /\ fatalSeen \in BOOLEAN /\ ctxDone \in BOOLEAN /\ signals \in Nat
  /\ cancelled \in BOOLEAN
UsingType ==
  /\ worker \in [Workers \cup {Late} -> {"none", "idle", "using", "done"}]
  /\ request \in [Requests -> {"none", "running", "using", "done"}]
  /\ DOMAIN at = Requests /\ refused \in BOOLEAN
LifeType == BootType /\ TeardownType /\ ServingType /\ EndingType /\ UsingType

\* The closers left are the first ones added.
StackInv ==
  /\ \A i \in 1..Left : closer[i] = Item(i)
  /\ main = "build" => Left = 0
  /\ main \in {"admin", "launch"} => Left = 4
  /\ main = "servers" => Left = 4 + next
  /\ main = "run" => Left = 6 + N
  /\ Left <= 6 + N
  /\ main \in {"build", "admin", "launch"} => next = 1
  /\ phase = "wait" => main \in {"closing", "exited"} /\ Left >= 1

\* A resource is open until its closer begins.
OpenInv ==
  /\ "pg" \in open <=> 2 <= Unbegun
  /\ "kafka" \in open <=> 3 <= Unbegun
  /\ "consumer" \in open <=> 4 <= Unbegun
  /\ "admin" \in open => 1 <= Unbegun
  /\ ~adminBindOptional /\ main \in {"launch", "servers"} => "admin" \in open

\* A listener that was bound serves, or is dead, until its closer begins.
ListenInv ==
  \A i \in 1..N :
    /\ listener[Servers[i]] \in {"serving", "dead"} <=> 5 + i <= Unbegun
    /\ listener[Servers[i]] # "none" => i < next
    /\ ~adminBindOptional /\ listener[Servers[i]] # "none" /\ 1 <= Unbegun => "admin" \in open
    /\ listener[Servers[i]] = "shut" /\ ~failed => ~ready

\* The drain gate comes first in the shutdown of a started service.
DrainInv == main = "closing" /\ ~failed /\ ~(6 + N <= Unbegun) => ~ready

\* Who may still be running has not been waited for, or the wait failed.
UserInv ==
  /\ \A w \in Workers \cup {Late} : worker[w] \in {"idle", "using"} => errs \/ 5 <= Left
  /\ \A s \in ServerNames : watcher[s] = "running" => errs \/ 5 <= Left
  /\ \A r \in Requests, i \in 1..N :
       request[r] \in {"running", "using"} /\ at[r] = Servers[i] => errs \/ 5 + i <= Left
  /\ \A r \in Requests : request[r] \in {"running", "using"} => at[r] \in ServerNames
  /\ errs => expired
  /\ refused => errs

\* Why the process ends.
EndInv ==
  /\ watch = "seen" => fatalSeen
  /\ ctxDone => signals > 0 \/ fatalSeen
  /\ main = "closing" /\ ~failed => ctxDone
  /\ ExitCodeHonest

LifeInv == LifeType /\ StackInv /\ OpenInv /\ ListenInv /\ DrainInv /\ UserInv /\ EndInv

-----------------------------------------------------------------------------
(* Names and numbers.                                                      *)

LEMMA Names ==
    /\ N \in Nat
    /\ \A i \in 1..N : Servers[i] \in ServerNames
    /\ \A s \in ServerNames : \E i \in 1..N : s = Servers[i]
    /\ \A i, j \in 1..N : Servers[i] = Servers[j] => i = j
    /\ \A i \in 1..N : Servers[i] \notin
         {"admin", "pg", "kafka", "consumer", "consumers-cancel", "drain-gate"}
<1>1. N \in Nat
  BY SMT, LifeAssumption DEF N
<1> QED  BY <1>1, LifeAssumption DEF N, ServerNames

LEMMA Items ==
    /\ Item(1) = "admin" /\ Item(2) = "pg" /\ Item(3) = "kafka" /\ Item(4) = "consumer"
    /\ Item(5) = "consumers-cancel" /\ Item(6 + N) = "drain-gate"
    /\ \A i \in 1..N : Item(5 + i) = Servers[i]
    /\ \A k \in 1..6 + N : k \in 1..5 \/ k = 6 + N \/ (k - 5 \in 1..N /\ k = 5 + (k - 5))
<1>1. N \in Nat
  BY Names
<1>2. /\ Item(1) = "admin" /\ Item(2) = "pg" /\ Item(3) = "kafka" /\ Item(4) = "consumer"
      /\ Item(5) = "consumers-cancel"
  BY SMT, <1>1 DEF Item
<1>3. Item(6 + N) = "drain-gate"
  BY SMT, <1>1 DEF Item
<1>4. ASSUME NEW i \in 1..N PROVE Item(5 + i) = Servers[i]
  BY SMT, <1>1 DEF Item
<1>5. \A k \in 1..6 + N : k \in 1..5 \/ k = 6 + N \/ (k - 5 \in 1..N /\ k = 5 + (k - 5))
  BY SMT, <1>1
<1> QED  BY <1>2, <1>3, <1>4, <1>5

\* How many closers are left.
LEMMA Counted ==
    ASSUME LifeInv
    PROVE  /\ N \in Nat /\ Left \in Nat /\ Unbegun \in Nat /\ Left <= 6 + N
           /\ phase = "next" => Unbegun = Left
           /\ phase = "wait" => Left >= 1 /\ Unbegun = Left - 1
<1>1. N \in Nat
  BY Names
<1>2. closer \in Seq(Closers) /\ phase \in {"next", "wait"}
  BY DEF LifeInv, LifeType, TeardownType
<1>3. Left \in Nat
  BY SMT, <1>2 DEF Left
<1>4. Left <= 6 + N /\ (phase = "wait" => Left >= 1)
  BY DEF LifeInv, StackInv
<1>5. CASE phase = "next"
  BY <1>1, <1>3, <1>4, <1>5 DEF Unbegun
<1>6. CASE phase = "wait"
  <2>1. Unbegun = Left - 1
    BY <1>6 DEF Unbegun
  <2>2. Left - 1 \in Nat
    BY SMT, <1>3, <1>4, <1>6
  <2> QED  BY <1>1, <1>3, <1>4, <1>6, <2>1, <2>2
<1> QED  BY <1>2, <1>5, <1>6

\* Until the teardown begins, no closer has.
LEMMA NotClosing ==
    ASSUME LifeInv, main \notin {"closing", "exited"}
    PROVE  phase = "next" /\ Unbegun = Left
  BY Counted DEF LifeInv, LifeType, TeardownType, StackInv

\* A step that leaves a group of variables alone.
LEMMA TypeFrame ==
    /\ BootType /\ UNCHANGED boot => BootType'
    /\ TeardownType /\ UNCHANGED teardown => TeardownType'
    /\ ServingType /\ UNCHANGED serving => ServingType'
    /\ EndingType /\ UNCHANGED ending => EndingType'
    /\ UsingType /\ UNCHANGED using => UsingType'
<1>1. BootType /\ UNCHANGED boot => BootType'
  BY DEF BootType, boot
<1>2. TeardownType /\ UNCHANGED teardown => TeardownType'
  BY DEF TeardownType, teardown
<1>3. ServingType /\ UNCHANGED serving => ServingType'
  BY DEF ServingType, serving
<1>4. EndingType /\ UNCHANGED ending => EndingType'
  BY DEF EndingType, ending
<1>5. UsingType /\ UNCHANGED using => UsingType'
  BY DEF UsingType, using
<1> QED  BY <1>1, <1>2, <1>3, <1>4, <1>5

\* A step that leaves the list alone.
LEMMA SameList ==
    ASSUME UNCHANGED <<closer, phase>>
    PROVE  Left' = Left /\ Unbegun' = Unbegun
  BY DEF Left, Unbegun

\* A closer is added.
LEMMA ListGrows ==
    ASSUME LifeInv, NEW x \in Closers, x = Item(Left + 1), closer' = Append(closer, x)
    PROVE  /\ closer' \in Seq(Closers) /\ Left' = Left + 1
           /\ \A i \in 1..Left' : closer'[i] = Item(i)
<1>1. closer \in Seq(Closers) /\ \A i \in 1..Left : closer[i] = Item(i)
  BY DEF LifeInv, LifeType, TeardownType, StackInv
<1>2. closer' \in Seq(Closers) /\ Len(closer') = Len(closer) + 1
  BY SMT, <1>1
<1>3. ASSUME NEW i \in 1..Len(closer) + 1
      PROVE  closer'[i] = IF i = Len(closer) + 1 THEN x ELSE closer[i]
  BY SMT, <1>1
<1>4. ASSUME NEW i \in 1..Left + 1 PROVE closer'[i] = Item(i)
  <2>1. i = Left + 1 \/ i \in 1..Left
    BY SMT, <1>1 DEF Left
  <2>2. CASE i = Left + 1
    BY <1>3, <2>2 DEF Left
  <2>3. CASE i \in 1..Left /\ i # Left + 1
    BY <1>1, <1>3, <2>3 DEF Left
  <2> QED  BY <2>1, <2>2, <2>3
<1> QED  BY <1>2, <1>4 DEF Left

\* The closer that is called next, or that is being waited for.
LEMMA TopIs ==
    ASSUME LifeInv, closer # <<>>
    PROVE  /\ Left \in 1..6 + N /\ Top = Item(Left)
           /\ Top = "admin" <=> Left = 1
           /\ Top = "pg" <=> Left = 2
           /\ Top = "kafka" <=> Left = 3
           /\ Top = "consumer" <=> Left = 4
           /\ Top = "consumers-cancel" <=> Left = 5
           /\ Top = "drain-gate" <=> Left = 6 + N
           /\ \A i \in 1..N : Top = Servers[i] <=> Left = 5 + i
<1>1. N \in Nat /\ Left \in Nat /\ Left <= 6 + N /\ closer \in Seq(Closers)
  BY Counted DEF LifeInv, LifeType, TeardownType
<1>2. Left \in 1..6 + N
  BY SMT, <1>1 DEF Left
<1>3. Top = Item(Left)
  <2>1. Left \in 1..Left
    BY SMT, <1>2
  <2> QED  BY <2>1 DEF LifeInv, StackInv, Top, Left
<1>4. \A i \in 1..N : ~(5 + i \in 1..5) /\ 5 + i # 6 + N
  BY SMT, <1>1
<1>5. \A i, j \in 1..N : 5 + i = 5 + j => i = j
  BY SMT, <1>1
<1>6. ~(6 + N \in 1..5)
  BY SMT, <1>1
<1>7. \A k \in 1..5 : k = 1 \/ k = 2 \/ k = 3 \/ k = 4 \/ k = 5
  BY SMT
<1>8. /\ 1 \in 1..5 /\ 2 \in 1..5 /\ 3 \in 1..5 /\ 4 \in 1..5 /\ 5 \in 1..5
      /\ 1 # 2 /\ 1 # 3 /\ 1 # 4 /\ 1 # 5 /\ 2 # 3 /\ 2 # 4 /\ 2 # 5 /\ 3 # 4 /\ 3 # 5 /\ 4 # 5
  BY SMT
<1>9. CASE Left \in 1..5
  BY <1>2, <1>3, <1>4, <1>6, <1>7, <1>8, <1>9, Items, Names
<1>10. CASE Left = 6 + N
  BY <1>2, <1>3, <1>4, <1>6, <1>8, <1>10, Items, Names
<1>11. ASSUME NEW j \in 1..N, Left = 5 + j
       PROVE  /\ Top = Servers[j] /\ ~(Left \in 1..5) /\ Left # 6 + N
              /\ \A i \in 1..N : Top = Servers[i] <=> Left = 5 + i
  <2>1. Top = Servers[j]
    BY <1>3, <1>11, Items
  <2>2. ~(Left \in 1..5) /\ Left # 6 + N
    BY <1>4, <1>11
  <2>3. ASSUME NEW i \in 1..N PROVE Top = Servers[i] <=> Left = 5 + i
    BY <1>5, <1>11, <2>1, Names
  <2> QED  BY <2>1, <2>2, <2>3
<1>12. CASE Left - 5 \in 1..N /\ Left = 5 + (Left - 5)
  <2>1. PICK j \in 1..N : Left = 5 + j
    BY <1>12
  <2>2. /\ Top = Servers[j] /\ ~(Left \in 1..5) /\ Left # 6 + N
        /\ \A i \in 1..N : Top = Servers[i] <=> Left = 5 + i
    BY <1>11, <2>1
  <2>3. Top \notin {"admin", "pg", "kafka", "consumer", "consumers-cancel", "drain-gate"}
    BY <2>2, Names
  <2>4. Left # 1 /\ Left # 2 /\ Left # 3 /\ Left # 4 /\ Left # 5
    BY <1>8, <2>2
  <2> QED  BY <1>2, <1>3, <2>2, <2>3, <2>4
<1> QED  BY <1>2, <1>9, <1>10, <1>12, Items

-----------------------------------------------------------------------------
(* Building and starting.                                                  *)

LEMMA InitKeeps ==
    ASSUME Init
    PROVE  LifeInv
<1>1. LifeType
  <2>1. BootType
    <3>1. 1 \in 1..N + 1
      BY SMT, Names
    <3> QED  BY <3>1 DEF Init, BootType
  <2>2. TeardownType
    <3>1. <<>> \in Seq(Closers)
      BY SMT
    <3> QED  BY <3>1 DEF Init, TeardownType
  <2>3. ServingType
    BY DEF Init, ServingType
  <2>4. EndingType
    <3>1. 0 \in Nat
      BY SMT
    <3> QED  BY <3>1 DEF Init, EndingType
  <2>5. UsingType
    BY DEF Init, UsingType
  <2> QED  BY <2>1, <2>2, <2>3, <2>4, <2>5 DEF LifeType
<1>2. Left = 0 /\ Unbegun = 0
  BY SMT DEF Init, Left, Unbegun
<1>3. StackInv
  <2>1. 1..0 = {} /\ 0 <= 6 + N
    BY SMT, Names
  <2> QED  BY <1>2, <2>1 DEF Init, StackInv
<1>4. OpenInv
  <2>1. ~(2 <= 0) /\ ~(3 <= 0) /\ ~(4 <= 0)
    BY SMT
  <2> QED  BY <1>2, <2>1 DEF Init, OpenInv
<1>5. ListenInv
  <2>1. \A i \in 1..N : ~(5 + i <= 0)
    BY SMT, Names
  <2> QED  BY <1>2, <2>1, Names DEF Init, ListenInv
<1>6. DrainInv
  BY DEF Init, DrainInv
<1>7. UserInv
  BY DEF Init, UserInv
<1>8. EndInv
  BY DEF Init, EndInv, ExitCodeHonest
<1> QED  BY <1>1, <1>3, <1>4, <1>5, <1>6, <1>7, <1>8 DEF LifeInv

LEMMA FourItems ==
    ASSUME closer' = Append(<<"admin", "pg", "kafka">>, "consumer")
    PROVE  /\ closer' \in Seq(Closers) /\ Len(closer') = 4
           /\ closer'[1] = "admin" /\ closer'[2] = "pg"
           /\ closer'[3] = "kafka" /\ closer'[4] = "consumer"
<1>1. PICK a \in Closers, b \in Closers, c \in Closers, d \in Closers :
        a = "admin" /\ b = "pg" /\ c = "kafka" /\ d = "consumer"
  BY DEF Closers
<1>2. PICK s : s = Append(<<a, b, c>>, d)
  OBVIOUS
<1>3. s \in Seq(Closers) /\ Len(s) = 4 /\ s[1] = a /\ s[2] = b /\ s[3] = c /\ s[4] = d
  BY SMT, <1>2
<1>4. closer' = s
  BY <1>1, <1>2
<1> QED  BY <1>1, <1>3, <1>4

LEMMA BuildKeeps ==
    ASSUME LifeInv, Build
    PROVE  LifeInv'
<1>1. /\ phase = "next" /\ phase' = "next" /\ Left = 0 /\ Unbegun = 0 /\ next = 1
      /\ main' = "admin" /\ next' = 1
  BY NotClosing DEF Build, LifeInv, StackInv
<1>2. closer' = Append(<<"admin", "pg", "kafka">>, "consumer")
  BY DEF Build, NewClosers, AddConsumer
<1>3. closer' \in Seq(Closers) /\ Left' = 4
  BY <1>2, FourItems DEF Left
<1>4. \A i \in 1..4 : closer'[i] = Item(i)
  <2>1. \A i \in 1..4 : i = 1 \/ i = 2 \/ i = 3 \/ i = 4
    BY SMT
  <2>2. closer'[1] = "admin" /\ closer'[2] = "pg" /\ closer'[3] = "kafka" /\ closer'[4] = "consumer"
    BY <1>2, FourItems
  <2> QED  BY <2>1, <2>2, Items
<1>5. Unbegun' = 4
  BY <1>1, <1>3 DEF Unbegun
<1>6. LifeType'
  <2>1. BootType'
    BY DEF LifeInv, LifeType, BootType, Build, AddWorker
  <2>2. TeardownType'
    BY <1>3 DEF LifeInv, LifeType, TeardownType, Build, Resources
  <2> QED  BY <2>1, <2>2, TypeFrame DEF LifeInv, LifeType, Build
<1>7. StackInv'
  <2>1. 4 <= 6 + N
    BY SMT, Names
  <2> QED  BY <1>1, <1>3, <1>4, <2>1 DEF StackInv
<1>8. OpenInv'
  <2>1. 2 <= 4 /\ 3 <= 4 /\ 4 <= 4
    BY SMT
  <2> QED  BY <1>1, <1>5, <2>1 DEF OpenInv, Build
<1>9. ListenInv'
  <2>1. \A i \in 1..N : ~(i < 1) /\ ~(5 + i <= 4)
    BY SMT, Names
  <2>2. \A i \in 1..N : listener[Servers[i]] = "none"
    BY <1>1, <2>1 DEF LifeInv, ListenInv
  <2> QED  BY <1>5, <2>1, <2>2 DEF ListenInv, Build, serving
<1>10. DrainInv'
  BY <1>1 DEF DrainInv
<1>11. UserInv'
  <2>1. ~(5 <= 0) /\ \A i \in 1..N : ~(5 + i <= 0)
    BY SMT, Names
  <2> QED  BY <1>1, <2>1 DEF LifeInv, UserInv, Build, serving, using
<1>12. EndInv'
  BY <1>1 DEF LifeInv, EndInv, ExitCodeHonest, Build, ending
<1> QED  BY <1>6, <1>7, <1>8, <1>9, <1>10, <1>11, <1>12 DEF LifeInv

LEMMA BuildFailsKeeps ==
    ASSUME LifeInv, BuildFails
    PROVE  LifeInv'
<1>1. Left' = Left /\ Unbegun' = Unbegun
  BY SameList DEF BuildFails, teardown
<1>2. LifeType'
  <2>1. BootType'
    BY DEF LifeInv, LifeType, BootType, BuildFails
  <2> QED  BY <2>1, TypeFrame DEF LifeInv, LifeType, BuildFails
<1>3. StackInv'
  BY <1>1 DEF LifeInv, StackInv, BuildFails, teardown
<1>4. OpenInv'
  BY <1>1 DEF LifeInv, OpenInv, BuildFails, teardown
<1>5. ListenInv'
  BY <1>1 DEF LifeInv, ListenInv, BuildFails, teardown, serving
<1>6. DrainInv'
  BY DEF DrainInv, BuildFails
<1>7. UserInv'
  BY <1>1 DEF LifeInv, UserInv, BuildFails, teardown, serving, using
<1>8. EndInv'
  <2>1. 1 # 0
    BY SMT
  <2> QED  BY <2>1 DEF LifeInv, EndInv, ExitCodeHonest, BuildFails, ending
<1> QED  BY <1>2, <1>3, <1>4, <1>5, <1>6, <1>7, <1>8 DEF LifeInv

LEMMA StartAdminKeeps ==
    ASSUME LifeInv, StartAdmin
    PROVE  LifeInv'
<1>1. /\ Left' = Left /\ Unbegun' = Unbegun /\ Left = 4 /\ Unbegun = 4 /\ next' = 1
      /\ main' \in {"launch", "closing"} /\ (main' = "closing" => failed')
      /\ (main' = "launch" /\ ~adminBindOptional' => "admin" \in open')
      /\ (open' = open \/ open' = open \cup {"admin"})
  BY SameList, NotClosing DEF StartAdmin, LifeInv, StackInv
<1>2. LifeType'
  <2>1. BootType'
    BY DEF LifeInv, LifeType, BootType, StartAdmin
  <2>2. TeardownType'
    BY <1>1 DEF LifeInv, LifeType, TeardownType, StartAdmin, Resources
  <2> QED  BY <2>1, <2>2, TypeFrame DEF LifeInv, LifeType, StartAdmin
<1>3. StackInv'
  BY <1>1, NotClosing DEF LifeInv, StackInv, StartAdmin
<1>4. OpenInv'
  <2>1. 1 <= 4
    BY SMT
  <2> QED  BY <1>1, <2>1 DEF LifeInv, OpenInv
<1>5. ListenInv'
  <2>1. \A i \in 1..N : ~(i < 1) /\ ~(5 + i <= 4)
    BY SMT, Names
  <2>2. \A i \in 1..N : listener[Servers[i]] = "none"
    BY <2>1 DEF LifeInv, ListenInv, StackInv, StartAdmin
  <2> QED  BY <1>1, <2>1, <2>2 DEF ListenInv, StartAdmin, serving
<1>6. DrainInv'
  BY <1>1 DEF DrainInv
<1>7. UserInv'
  BY <1>1 DEF LifeInv, UserInv, StartAdmin, serving, using
<1>8. EndInv'
  BY <1>1 DEF LifeInv, EndInv, ExitCodeHonest, StartAdmin, ending
<1> QED  BY <1>2, <1>3, <1>4, <1>5, <1>6, <1>7, <1>8 DEF LifeInv

LEMMA LaunchKeeps ==
    ASSUME LifeInv, Launch
    PROVE  LifeInv'
<1>1. Left = 4 /\ Unbegun = 4 /\ next = 1 /\ next' = 1 /\ main' = "servers" /\ phase' = "next"
  BY NotClosing DEF Launch, LifeInv, StackInv
<1>2. closer' \in Seq(Closers) /\ Left' = 5 /\ \A i \in 1..5 : closer'[i] = Item(i)
  <2>1. 4 + 1 = 5
    BY SMT
  <2>2. "consumers-cancel" \in Closers /\ "consumers-cancel" = Item(Left + 1)
    BY <1>1, <2>1, Items DEF Closers
  <2>3. closer' = Append(closer, "consumers-cancel")
    BY DEF Launch, ConsumersCancelAdded
  <2>4. closer' \in Seq(Closers) /\ Left' = Left + 1 /\ \A i \in 1..Left' : closer'[i] = Item(i)
    BY <2>2, <2>3, ListGrows
  <2> QED  BY <1>1, <2>1, <2>4
<1>3. Unbegun' = 5
  BY <1>1, <1>2 DEF Unbegun
<1>4. LifeType'
  <2>1. BootType'
    BY DEF LifeInv, LifeType, BootType, Launch, registerInboxCleanup, AddPeriodicWorker
  <2>2. TeardownType'
    BY <1>2 DEF LifeInv, LifeType, TeardownType, Launch
  <2>3. UsingType'
    BY DEF LifeInv, LifeType, UsingType, Launch
  <2> QED  BY <2>1, <2>2, <2>3, TypeFrame DEF LifeInv, LifeType, Launch
<1>5. StackInv'
  <2>1. 5 <= 6 + N /\ 4 + 1 = 5
    BY SMT, Names
  <2> QED  BY <1>1, <1>2, <2>1 DEF StackInv
<1>6. OpenInv'
  <2>1. /\ 1 <= 5 /\ 2 <= 5 /\ 3 <= 5 /\ 4 <= 5
        /\ 1 <= 4 /\ 2 <= 4 /\ 3 <= 4 /\ 4 <= 4
    BY SMT
  <2> QED  BY <1>1, <1>3, <2>1 DEF LifeInv, OpenInv, Launch
<1>7. ListenInv'
  <2>1. \A i \in 1..N : ~(i < 1) /\ ~(5 + i <= 5)
    BY SMT, Names
  <2>2. \A i \in 1..N : listener[Servers[i]] = "none"
    BY <1>1, <2>1 DEF LifeInv, ListenInv
  <2> QED  BY <1>3, <2>1, <2>2 DEF ListenInv, Launch, serving
<1>8. DrainInv'
  BY <1>1 DEF DrainInv
<1>9. UserInv'
  <2>1. 5 <= 5 /\ ~(5 <= 4) /\ \A i \in 1..N : ~(5 + i <= 4)
    BY SMT, Names
  <2> QED  BY <1>1, <1>2, <2>1 DEF LifeInv, UserInv, Launch, serving
<1>10. EndInv'
  BY <1>1 DEF LifeInv, EndInv, ExitCodeHonest, Launch, ending
<1> QED  BY <1>4, <1>5, <1>6, <1>7, <1>8, <1>9, <1>10 DEF LifeInv

LEMMA StartServerKeeps ==
    ASSUME LifeInv, StartServer
    PROVE  LifeInv'
<1>1. /\ Left = 4 + next /\ Unbegun = Left /\ main = "servers" /\ main' = main /\ phase' = "next"
      /\ next \in 1..N + 1 /\ next <= N /\ next' = next + 1 /\ Left \in Nat /\ N \in Nat
  BY NotClosing, Counted DEF StartServer, LifeInv, LifeType, BootType, StackInv, N
<1>2. /\ next \in 1..N /\ next' \in 1..N + 1 /\ Left + 1 = 5 + next /\ 5 + next = 4 + next'
      /\ 5 + next <= 6 + N
  BY SMT, <1>1
<1>3. PICK s \in ServerNames :
        /\ s = Servers[next]
        /\ listener' = [listener EXCEPT ![s] = "serving"]
        /\ watcher' = [watcher EXCEPT ![s] = "running"]
        /\ closer' = Append(closer, s)
  BY <1>2, Names DEF StartServer, ServerAdded
<1>4. closer' \in Seq(Closers) /\ Left' = 5 + next /\ \A i \in 1..Left' : closer'[i] = Item(i)
  <2>1. s \in Closers /\ s = Item(Left + 1)
    BY <1>2, <1>3, Items DEF Closers
  <2>2. closer' \in Seq(Closers) /\ Left' = Left + 1 /\ \A i \in 1..Left' : closer'[i] = Item(i)
    BY <1>3, <2>1, ListGrows
  <2> QED  BY <1>2, <2>2
<1>5. Unbegun' = 5 + next
  BY <1>1, <1>4 DEF Unbegun
<1>6. LifeType'
  <2>1. BootType'
    BY <1>2 DEF LifeInv, LifeType, BootType, StartServer
  <2>2. TeardownType'
    BY <1>4 DEF LifeInv, LifeType, TeardownType, StartServer
  <2>3. ServingType'
    <3>1. listener' \in [ServerNames -> {"none", "serving", "dead", "shut"}]
      BY <1>3 DEF LifeInv, LifeType, ServingType
    <3>2. watcher' \in [ServerNames -> {"none", "running", "done"}]
      BY <1>3 DEF LifeInv, LifeType, ServingType
    <3> QED  BY <3>1, <3>2 DEF LifeInv, LifeType, ServingType, StartServer
  <2> QED  BY <2>1, <2>2, <2>3, TypeFrame DEF LifeInv, LifeType, StartServer
<1>7. StackInv'
  BY <1>1, <1>2, <1>4 DEF StackInv
<1>8. OpenInv'
  <2>1. /\ 1 <= 5 + next /\ 2 <= 5 + next /\ 3 <= 5 + next /\ 4 <= 5 + next
        /\ 1 <= Left /\ 2 <= Left /\ 3 <= Left /\ 4 <= Left
    BY SMT, <1>1
  <2> QED  BY <1>1, <1>5, <2>1 DEF LifeInv, OpenInv, StartServer
<1>9. ASSUME NEW i \in 1..N
      PROVE  /\ listener'[Servers[i]] \in {"serving", "dead"} <=> 5 + i <= Unbegun'
             /\ listener'[Servers[i]] # "shut"
             /\ listener'[Servers[i]] # "none" => i < next'
  <2>1. CASE i = next
    <3>1. next < next + 1 /\ 5 + next <= 5 + next
      BY SMT, <1>1
    <3>2. listener'[Servers[i]] = "serving"
      BY <1>3, <2>1 DEF LifeInv, LifeType, ServingType
    <3> QED  BY <1>1, <1>5, <2>1, <3>1, <3>2
  <2>2. CASE i # next
    <3>1. listener'[Servers[i]] = listener[Servers[i]]
      BY <1>2, <1>3, <2>2, Names DEF LifeInv, LifeType, ServingType
    <3>2. (i < next => i < next + 1 /\ 5 + i <= Left) /\ (5 + i <= Left <=> 5 + i <= 5 + next)
      BY SMT, <1>1, <2>2
    <3>3. listener[Servers[i]] \in {"none", "serving", "dead", "shut"}
      BY Names DEF LifeInv, LifeType, ServingType
    <3> QED  BY <1>1, <1>5, <3>1, <3>2, <3>3 DEF LifeInv, ListenInv
  <2> QED  BY <2>1, <2>2
<1>10. ListenInv'
  <2>1. ~adminBindOptional' => "admin" \in open'
    BY <1>1 DEF LifeInv, OpenInv, StartServer
  <2> QED  BY <1>9, <2>1 DEF ListenInv
<1>11. DrainInv'
  BY <1>1 DEF DrainInv
<1>12. UserInv'
  <2>1. 5 <= 5 + next /\ \A i \in 1..N : 5 + i <= Left => 5 + i <= 5 + next
    BY SMT, <1>1
  <2> QED  BY <1>1, <1>4, <2>1 DEF LifeInv, UserInv, StartServer, using
<1>13. EndInv'
  BY <1>1 DEF LifeInv, EndInv, ExitCodeHonest, StartServer, ending
<1> QED  BY <1>6, <1>7, <1>8, <1>10, <1>11, <1>12, <1>13 DEF LifeInv

LEMMA StartServerFailsKeeps ==
    ASSUME LifeInv, StartServerFails
    PROVE  LifeInv'
<1>1. Left' = Left /\ Unbegun' = Unbegun
  BY SameList DEF StartServerFails, teardown
<1>2. LifeType'
  <2>1. BootType'
    BY DEF LifeInv, LifeType, BootType, StartServerFails
  <2>2. EndingType'
    BY DEF LifeInv, LifeType, EndingType, StartServerFails
  <2> QED  BY <2>1, <2>2, TypeFrame DEF LifeInv, LifeType, StartServerFails
<1>3. StackInv'
  BY <1>1 DEF LifeInv, StackInv, StartServerFails, boot, teardown
<1>4. OpenInv'
  BY <1>1 DEF LifeInv, OpenInv, StartServerFails, boot, teardown
<1>5. ListenInv'
  BY <1>1 DEF LifeInv, ListenInv, StartServerFails, boot, teardown, serving
<1>6. DrainInv'
  BY DEF DrainInv, StartServerFails
<1>7. UserInv'
  BY <1>1 DEF LifeInv, UserInv, StartServerFails, teardown, serving, using
<1>8. EndInv'
  BY DEF LifeInv, EndInv, ExitCodeHonest, StartServerFails, boot, ending
<1> QED  BY <1>2, <1>3, <1>4, <1>5, <1>6, <1>7, <1>8 DEF LifeInv

LEMMA StartedKeeps ==
    ASSUME LifeInv, Started
    PROVE  LifeInv'
<1>1. /\ Left = 4 + next /\ Unbegun = Left /\ main = "servers" /\ main' = "run" /\ phase' = "next"
      /\ next \in 1..N + 1 /\ next > N /\ next' = next /\ Left \in Nat /\ N \in Nat
  BY NotClosing, Counted DEF Started, LifeInv, LifeType, BootType, StackInv, N
<1>2. next = N + 1 /\ Left = 5 + N /\ Left + 1 = 6 + N
  BY SMT, <1>1
<1>3. closer' \in Seq(Closers) /\ Left' = 6 + N /\ \A i \in 1..Left' : closer'[i] = Item(i)
  <2>1. "drain-gate" \in Closers /\ "drain-gate" = Item(Left + 1)
    BY <1>2, Items DEF Closers
  <2>2. closer' \in Seq(Closers) /\ Left' = Left + 1 /\ \A i \in 1..Left' : closer'[i] = Item(i)
    BY <2>1, ListGrows DEF Started, DrainGateAdded
  <2> QED  BY <1>2, <2>2
<1>4. Unbegun' = 6 + N
  BY <1>1, <1>3 DEF Unbegun
<1>5. LifeType'
  <2>1. BootType'
    BY DEF LifeInv, LifeType, BootType, Started
  <2>2. TeardownType'
    BY <1>3 DEF LifeInv, LifeType, TeardownType, Started
  <2>3. EndingType'
    BY DEF LifeInv, LifeType, EndingType, Started
  <2> QED  BY <2>1, <2>2, <2>3, TypeFrame DEF LifeInv, LifeType, Started
<1>6. StackInv'
  <2>1. 6 + N <= 6 + N
    BY SMT, <1>1
  <2> QED  BY <1>1, <1>3, <2>1 DEF StackInv
<1>7. OpenInv'
  <2>1. /\ 1 <= 6 + N /\ 2 <= 6 + N /\ 3 <= 6 + N /\ 4 <= 6 + N
        /\ 1 <= 5 + N /\ 2 <= 5 + N /\ 3 <= 5 + N /\ 4 <= 5 + N
    BY SMT, <1>1
  <2> QED  BY <1>1, <1>2, <1>4, <2>1 DEF LifeInv, OpenInv, Started
<1>8. ListenInv'
  <2>1. \A i \in 1..N : 5 + i <= 5 + N /\ 5 + i <= 6 + N
    BY SMT, <1>1
  <2>2. 1 <= 5 + N
    BY SMT, <1>1
  <2> QED  BY <1>1, <1>2, <1>4, <2>1, <2>2 DEF LifeInv, ListenInv, Started, serving
<1>9. DrainInv'
  BY <1>1 DEF DrainInv
<1>10. UserInv'
  <2>1. 5 <= 6 + N /\ \A i \in 1..N : 5 + i <= 6 + N
    BY SMT, <1>1
  <2> QED  BY <1>3, <2>1 DEF LifeInv, UserInv, Started, serving, using
<1>11. EndInv'
  BY <1>1 DEF LifeInv, EndInv, ExitCodeHonest, Started
<1> QED  BY <1>5, <1>6, <1>7, <1>8, <1>9, <1>10, <1>11 DEF LifeInv

-----------------------------------------------------------------------------
(* What ends the process.                                                  *)

LEMMA SignalKeeps ==
    ASSUME LifeInv, Signal
    PROVE  LifeInv'
<1>1. Left' = Left /\ Unbegun' = Unbegun
  BY SameList DEF Signal, teardown
<1>2. LifeType'
  <2>1. EndingType'
    <3>1. signals + 1 \in Nat
      BY SMT DEF LifeInv, LifeType, EndingType
    <3> QED  BY <3>1 DEF LifeInv, LifeType, EndingType, Signal
  <2> QED  BY <2>1, TypeFrame DEF LifeInv, LifeType, Signal
<1>3. StackInv'
  BY <1>1 DEF LifeInv, StackInv, Signal, boot, teardown
<1>4. OpenInv'
  BY <1>1 DEF LifeInv, OpenInv, Signal, boot, teardown
<1>5. ListenInv'
  BY <1>1 DEF LifeInv, ListenInv, Signal, boot, teardown, serving
<1>6. DrainInv'
  BY <1>1 DEF LifeInv, DrainInv, Signal, boot, teardown
<1>7. UserInv'
  BY <1>1 DEF LifeInv, UserInv, Signal, teardown, serving, using
<1>8. EndInv'
  <2>1. signals + 1 > 0
    BY SMT DEF LifeInv, LifeType, EndingType
  <2> QED  BY <2>1 DEF LifeInv, EndInv, ExitCodeHonest, Signal, boot
<1> QED  BY <1>2, <1>3, <1>4, <1>5, <1>6, <1>7, <1>8 DEF LifeInv

LEMMA HardQuitKeeps ==
    ASSUME LifeInv, HardQuit
    PROVE  LifeInv'
<1>1. Left' = Left /\ Unbegun' = Unbegun
  BY SameList DEF HardQuit, teardown
<1>2. LifeType'
  <2>1. BootType'
    BY DEF LifeInv, LifeType, BootType, HardQuit
  <2>2. EndingType'
    <3>1. signals + 1 \in Nat
      BY SMT DEF LifeInv, LifeType, EndingType
    <3> QED  BY <3>1 DEF LifeInv, LifeType, EndingType, HardQuit
  <2> QED  BY <2>1, <2>2, TypeFrame DEF LifeInv, LifeType, HardQuit
<1>3. StackInv'
  BY <1>1 DEF LifeInv, StackInv, HardQuit, boot, teardown
<1>4. OpenInv'
  BY <1>1 DEF LifeInv, OpenInv, HardQuit, boot, teardown
<1>5. ListenInv'
  BY <1>1 DEF LifeInv, ListenInv, HardQuit, boot, teardown, serving
<1>6. DrainInv'
  BY DEF DrainInv, HardQuit
<1>7. UserInv'
  BY <1>1 DEF LifeInv, UserInv, HardQuit, teardown, serving, using
<1>8. EndInv'
  <2>1. signals + 1 > 0 /\ 1 # 0
    BY SMT DEF LifeInv, LifeType, EndingType
  <2> QED  BY <2>1 DEF LifeInv, EndInv, ExitCodeHonest, HardQuit
<1> QED  BY <1>2, <1>3, <1>4, <1>5, <1>6, <1>7, <1>8 DEF LifeInv

LEMMA ListenerDiesKeeps ==
    ASSUME LifeInv, NEW s \in ServerNames, ListenerDies(s)
    PROVE  LifeInv'
<1>1. Left' = Left /\ Unbegun' = Unbegun
  BY SameList DEF ListenerDies, teardown
<1>2. LifeType'
  <2>1. ServingType'
    BY DEF LifeInv, LifeType, ServingType, ListenerDies
  <2> QED  BY <2>1, TypeFrame DEF LifeInv, LifeType, ListenerDies
<1>3. StackInv'
  BY <1>1 DEF LifeInv, StackInv, ListenerDies, boot, teardown
<1>4. OpenInv'
  BY <1>1 DEF LifeInv, OpenInv, ListenerDies, boot, teardown
<1>5. ListenInv'
  <2>1. ASSUME NEW i \in 1..N
        PROVE  \/ listener'[Servers[i]] = listener[Servers[i]]
               \/ listener[Servers[i]] = "serving" /\ listener'[Servers[i]] = "dead"
    BY Names DEF ListenerDies, LifeInv, LifeType, ServingType
  <2> QED  BY <1>1, <2>1 DEF LifeInv, ListenInv, ListenerDies, boot, teardown
<1>6. DrainInv'
  BY <1>1 DEF LifeInv, DrainInv, ListenerDies, boot, teardown
<1>7. UserInv'
  BY <1>1 DEF LifeInv, UserInv, ListenerDies, teardown, serving, using
<1>8. EndInv'
  BY DEF LifeInv, EndInv, ExitCodeHonest, ListenerDies, Alive, boot, ending
<1> QED  BY <1>2, <1>3, <1>4, <1>5, <1>6, <1>7, <1>8 DEF LifeInv

LEMMA WatchServeKeeps ==
    ASSUME LifeInv, NEW s \in ServerNames, WatchServe(s)
    PROVE  LifeInv'
<1>1. Left' = Left /\ Unbegun' = Unbegun
  BY SameList DEF WatchServe, teardown
<1>2. LifeType'
  <2>1. TeardownType'
    BY DEF LifeInv, LifeType, TeardownType, WatchServe
  <2>2. ServingType'
    BY DEF LifeInv, LifeType, ServingType, WatchServe
  <2>3. EndingType'
    BY DEF LifeInv, LifeType, EndingType, WatchServe
  <2> QED  BY <2>1, <2>2, <2>3, TypeFrame DEF LifeInv, LifeType, WatchServe
<1>3. StackInv'
  BY <1>1 DEF LifeInv, StackInv, WatchServe, boot, teardown
<1>4. OpenInv'
  BY <1>1 DEF LifeInv, OpenInv, WatchServe, boot, teardown
<1>5. ListenInv'
  BY <1>1 DEF LifeInv, ListenInv, WatchServe, boot, teardown, serving
<1>6. DrainInv'
  BY <1>1 DEF LifeInv, DrainInv, WatchServe, boot, teardown
<1>7. UserInv'
  BY <1>1 DEF LifeInv, UserInv, WatchServe, teardown, serving, using
<1>8. EndInv'
  BY DEF LifeInv, EndInv, ExitCodeHonest, WatchServe, Alive, boot
<1> QED  BY <1>2, <1>3, <1>4, <1>5, <1>6, <1>7, <1>8 DEF LifeInv

LEMMA FatalWatchKeeps ==
    ASSUME LifeInv, FatalWatch
    PROVE  LifeInv'
<1>1. Left' = Left /\ Unbegun' = Unbegun
  BY SameList DEF FatalWatch, teardown
<1>2. LifeType'
  <2>1. EndingType'
    BY DEF LifeInv, LifeType, EndingType, FatalWatch
  <2> QED  BY <2>1, TypeFrame DEF LifeInv, LifeType, FatalWatch
<1>3. StackInv'
  BY <1>1 DEF LifeInv, StackInv, FatalWatch, boot, teardown
<1>4. OpenInv'
  BY <1>1 DEF LifeInv, OpenInv, FatalWatch, boot, teardown
<1>5. ListenInv'
  BY <1>1 DEF LifeInv, ListenInv, FatalWatch, boot, teardown, serving
<1>6. DrainInv'
  BY <1>1 DEF LifeInv, DrainInv, FatalWatch, boot, teardown
<1>7. UserInv'
  BY <1>1 DEF LifeInv, UserInv, FatalWatch, teardown, serving, using
<1>8. EndInv'
  <2>1. main' = main /\ main # "exited" /\ failed' = failed /\ signals' = signals
    BY DEF FatalWatch, Alive, boot
  <2>2. \/ fatalSeen' /\ ctxDone' = ctxDone
        \/ fatalSeen /\ fatalSeen' /\ ctxDone' /\ watch' = "done"
    <3>1. CASE watch = "waiting"
      BY <3>1 DEF FatalWatch
    <3>2. CASE watch = "seen"
      <4>1. fatalSeen
        BY <3>2 DEF LifeInv, EndInv
      <4>2. fatalSeen' = fatalSeen /\ ctxDone' /\ watch' = "done"
        BY <3>2 DEF FatalWatch
      <4> QED  BY <4>1, <4>2
    <3> QED  BY <3>1, <3>2 DEF FatalWatch
  <2> QED  BY <2>1, <2>2 DEF LifeInv, EndInv, ExitCodeHonest
<1> QED  BY <1>2, <1>3, <1>4, <1>5, <1>6, <1>7, <1>8 DEF LifeInv

LEMMA RunWakesKeeps ==
    ASSUME LifeInv, RunWakes
    PROVE  LifeInv'
<1>1. Left' = Left /\ Unbegun' = Unbegun
  BY SameList DEF RunWakes, teardown
<1>2. LifeType'
  <2>1. BootType'
    BY DEF LifeInv, LifeType, BootType, RunWakes
  <2> QED  BY <2>1, TypeFrame DEF LifeInv, LifeType, RunWakes
<1>3. StackInv'
  BY <1>1 DEF LifeInv, StackInv, RunWakes, boot, teardown
<1>4. OpenInv'
  BY <1>1 DEF LifeInv, OpenInv, RunWakes, boot, teardown
<1>5. ListenInv'
  BY <1>1 DEF LifeInv, ListenInv, RunWakes, boot, teardown, serving
<1>6. DrainInv'
  <2>1. Unbegun = 6 + N /\ 6 + N <= 6 + N
    <3>1. 6 + N <= 6 + N
      BY SMT, Names
    <3> QED  BY <3>1, NotClosing DEF LifeInv, StackInv, RunWakes
  <2> QED  BY <1>1, <2>1 DEF DrainInv
<1>7. UserInv'
  BY <1>1 DEF LifeInv, UserInv, RunWakes, teardown, serving, using
<1>8. EndInv'
  BY DEF LifeInv, EndInv, ExitCodeHonest, RunWakes, boot, ending
<1> QED  BY <1>2, <1>3, <1>4, <1>5, <1>6, <1>7, <1>8 DEF LifeInv

LEMMA BudgetExpiresKeeps ==
    ASSUME LifeInv, BudgetExpires
    PROVE  LifeInv'
<1>1. Left' = Left /\ Unbegun' = Unbegun
  BY SameList DEF BudgetExpires, teardown
<1>2. LifeType'
  <2>1. TeardownType'
    BY DEF LifeInv, LifeType, TeardownType, BudgetExpires
  <2> QED  BY <2>1, TypeFrame DEF LifeInv, LifeType, BudgetExpires
<1>3. StackInv'
  BY <1>1 DEF LifeInv, StackInv, BudgetExpires, boot, teardown
<1>4. OpenInv'
  BY <1>1 DEF LifeInv, OpenInv, BudgetExpires, boot, teardown
<1>5. ListenInv'
  BY <1>1 DEF LifeInv, ListenInv, BudgetExpires, boot, teardown, serving
<1>6. DrainInv'
  BY <1>1 DEF LifeInv, DrainInv, BudgetExpires, boot, teardown
<1>7. UserInv'
  BY <1>1 DEF LifeInv, UserInv, BudgetExpires, teardown, serving, using
<1>8. EndInv'
  BY DEF LifeInv, EndInv, ExitCodeHonest, BudgetExpires, boot, ending
<1> QED  BY <1>2, <1>3, <1>4, <1>5, <1>6, <1>7, <1>8 DEF LifeInv

-----------------------------------------------------------------------------
(* The teardown.                                                           *)

LEMMA CloseBeginsKeeps ==
    ASSUME LifeInv, CloseBegins
    PROVE  LifeInv'
<1>1. /\ main = "closing" /\ main' = main /\ closer # <<>> /\ closer' = closer
      /\ phase = "next" /\ phase' = "wait" /\ Left' = Left /\ Unbegun = Left /\ Unbegun' = Left - 1
      /\ Left \in Nat /\ N \in Nat
  BY Counted DEF CloseBegins, boot, Left, Unbegun
<1>2. \A c \in Nat : c <= Unbegun' <=> c <= Unbegun /\ c # Left
  BY SMT, <1>1
<1>3. /\ 1 \in Nat /\ 2 \in Nat /\ 3 \in Nat /\ 4 \in Nat /\ 6 + N \in Nat
      /\ \A i \in 1..N : 5 + i \in Nat
  BY SMT, <1>1
<1>4. /\ errs' = (errs \/ expired) /\ ready' = (ready /\ Top # "drain-gate")
      /\ open' = open \ {Top} /\ failed' = failed /\ next' = next /\ expired' = expired
      /\ adminBindOptional' = adminBindOptional
      /\ listener' = [s \in ServerNames |-> IF s = Top THEN "shut" ELSE listener[s]]
  BY DEF CloseBegins, boot
<1>5. LifeType'
  <2>1. TeardownType'
    BY <1>1, <1>4 DEF LifeInv, LifeType, TeardownType
  <2>2. ServingType'
    BY <1>4 DEF LifeInv, LifeType, ServingType, CloseBegins
  <2>3. EndingType'
    BY DEF LifeInv, LifeType, EndingType, CloseBegins
  <2> QED  BY <2>1, <2>2, <2>3, TypeFrame DEF LifeInv, LifeType, CloseBegins
<1>6. StackInv'
  <2>1. Left >= 1
    BY SMT, <1>1, TopIs
  <2> QED  BY <1>1, <1>4, <2>1 DEF LifeInv, StackInv
<1>7. OpenInv'
  BY <1>1, <1>2, <1>3, <1>4, TopIs DEF LifeInv, OpenInv
<1>8. ListenInv'
  <2>1. ASSUME NEW i \in 1..N, Servers[i] = Top
        PROVE  /\ listener'[Servers[i]] = "shut" /\ ~(5 + i <= Unbegun')
               /\ ~failed => ~ready
               /\ i < next
               /\ ~adminBindOptional => "admin" \in open'
    <3>1. Left = 5 + i
      BY <1>1, <2>1, TopIs
    <3>2. listener'[Servers[i]] = "shut" /\ ~(5 + i <= Unbegun')
      BY <1>2, <1>3, <1>4, <2>1, <3>1, Names
    <3>3. ~(6 + N <= Unbegun) /\ 1 <= Unbegun
      BY SMT, <1>1, <3>1
    <3>4. listener[Servers[i]] # "none" /\ i < next
      <4>1. 5 + i <= Unbegun
        BY SMT, <1>1, <3>1
      <4> QED  BY <4>1 DEF LifeInv, ListenInv
    <3>5. Top # "admin"
      BY <2>1, Names
    <3> QED  BY <1>1, <1>4, <3>2, <3>3, <3>4, <3>5 DEF LifeInv, ListenInv, DrainInv
  <2>2. ASSUME NEW i \in 1..N, Servers[i] # Top
        PROVE  /\ listener'[Servers[i]] = listener[Servers[i]]
               /\ (5 + i <= Unbegun' <=> 5 + i <= Unbegun)
    <3>1. Left # 5 + i
      BY <1>1, <2>2, TopIs
    <3> QED  BY <1>2, <1>3, <1>4, <2>2, <3>1, Names
  <2>3. 1 <= Unbegun' /\ "admin" \in open => 1 <= Unbegun /\ "admin" \in open'
    BY <1>1, <1>2, <1>3, <1>4, TopIs
  <2>4. 1 <= Unbegun' => 1 <= Unbegun
    BY <1>2, <1>3
  <2> QED  BY <1>4, <2>1, <2>2, <2>3, <2>4 DEF LifeInv, ListenInv
<1>9. DrainInv'
  <2>1. CASE 6 + N <= Unbegun
    <3>1. ~(6 + N <= Unbegun') => Top = "drain-gate"
      BY <1>1, <1>2, <1>3, <2>1, TopIs
    <3> QED  BY <1>4, <3>1 DEF DrainInv
  <2>2. CASE ~(6 + N <= Unbegun)
    BY <1>1, <1>4, <2>2 DEF LifeInv, DrainInv
  <2> QED  BY <2>1, <2>2
<1>10. UserInv'
  <2>1. /\ worker' = worker /\ request' = request /\ at' = at /\ watcher' = watcher
        /\ refused' = refused
    BY DEF CloseBegins, using
  <2>2. errs => errs'
    BY <1>4
  <2>3. errs' => expired'
    BY <1>4 DEF LifeInv, UserInv
  <2> QED  BY <1>1, <2>1, <2>2, <2>3 DEF LifeInv, UserInv
<1>11. EndInv'
  BY <1>1, <1>4 DEF LifeInv, EndInv, ExitCodeHonest, CloseBegins
<1> QED  BY <1>5, <1>6, <1>7, <1>8, <1>9, <1>10, <1>11 DEF LifeInv

LEMMA CloseEndsKeeps ==
    ASSUME LifeInv, CloseEnds
    PROVE  LifeInv'
<1>1. /\ main = "closing" /\ main' = main /\ closer # <<>> /\ phase = "wait" /\ phase' = "next"
      /\ closer' = SubSeq(closer, 1, Len(closer) - 1) /\ Left \in Nat /\ N \in Nat
      /\ Left >= 1 /\ Unbegun = Left - 1
  BY Counted DEF CloseEnds, Remaining, boot
<1>2. /\ closer' \in Seq(Closers) /\ Left' = Left - 1
      /\ \A i \in 1..Left' : i \in 1..Left /\ closer'[i] = closer[i]
  <2>1. closer \in Seq(Closers)
    BY DEF LifeInv, LifeType, TeardownType
  <2>2. closer' \in Seq(Closers) /\ Len(closer') = Len(closer) - 1
    BY SMT, <1>1, <2>1 DEF Left
  <2>3. \A i \in 1..Len(closer) - 1 : closer'[i] = closer[i]
    BY SMT, <1>1, <2>1 DEF Left
  <2>4. \A i \in 1..Left - 1 : i \in 1..Left
    BY SMT, <1>1
  <2> QED  BY <2>2, <2>3, <2>4 DEF Left
<1>3. Unbegun' = Unbegun
  BY <1>1, <1>2 DEF Unbegun
<1>4. \A c \in Nat : c <= Left' <=> c <= Left /\ c # Left
  BY SMT, <1>1, <1>2
<1>5. /\ \/ Drained /\ (errs' <=> errs)
         \/ GivesUp /\ errs'
      /\ expired' = expired /\ open' = open /\ ready' = ready /\ listener' = listener
      /\ failed' = failed /\ next' = next /\ adminBindOptional' = adminBindOptional
      /\ worker' = worker /\ request' = request /\ at' = at /\ watcher' = watcher
      /\ refused' = refused /\ errs' \in BOOLEAN
  <2>1. (Drained /\ errs' = errs) \/ (GivesUp /\ errs' = TRUE)
    BY DEF CloseEnds
  <2>2. errs = TRUE \/ errs = FALSE
    BY DEF LifeInv, LifeType, TeardownType
  <2>3. (Drained /\ (errs' <=> errs)) \/ (GivesUp /\ errs')
    <3>1. CASE errs = TRUE
      BY <2>1, <3>1
    <3>2. CASE errs = FALSE
      BY <2>1, <3>2
    <3> QED  BY <2>2, <3>1, <3>2
  <2>4. errs' \in BOOLEAN
    BY <2>1, <2>2
  <2> QED  BY <2>3, <2>4 DEF CloseEnds, boot, using
<1>6. LifeType'
  <2>1. TeardownType'
    BY <1>1, <1>2, <1>5 DEF LifeInv, LifeType, TeardownType
  <2>2. ServingType'
    BY DEF LifeInv, LifeType, ServingType, CloseEnds
  <2> QED  BY <2>1, <2>2, TypeFrame DEF LifeInv, LifeType, CloseEnds
<1>7. StackInv'
  <2>1. Left - 1 <= 6 + N
    BY SMT, <1>1, Counted
  <2> QED  BY <1>1, <1>2, <1>5, <2>1 DEF LifeInv, StackInv
<1>8. OpenInv'
  BY <1>1, <1>3, <1>5 DEF LifeInv, OpenInv
<1>9. ListenInv'
  BY <1>3, <1>5 DEF LifeInv, ListenInv
<1>10. DrainInv'
  BY <1>1, <1>3, <1>5 DEF LifeInv, DrainInv
<1>11. UserInv'
  <2>1. errs' => expired'
    BY <1>5 DEF GivesUp, LifeInv, UserInv
  <2>2. errs => errs'
    BY <1>5
  <2>3. refused' => errs'
    BY <1>5, <2>2 DEF LifeInv, UserInv
  <2>4. 5 \in Nat /\ \A i \in 1..N : 5 + i \in Nat
    BY SMT, <1>1
  <2>5. errs' \/ 5 <= Left' \/ GoroutinesDone \/ ~(errs \/ 5 <= Left)
    <3>1. CASE Left = 5
      <4>1. Drained => GoroutinesDone
        <5>1. Top = "consumers-cancel" /\ Top \notin ServerNames
          <6>1. Top = "consumers-cancel"
            BY <1>1, <3>1, TopIs
          <6> QED  BY <6>1, Names
        <5> QED  BY <5>1 DEF Drained
      <4> QED  BY <1>5, <4>1
    <3>2. CASE Left # 5
      BY <1>4, <2>2, <2>4, <3>2
    <3> QED  BY <3>1, <3>2
  <2>6. ASSUME NEW i \in 1..N
        PROVE  errs' \/ 5 + i <= Left' \/ InFlight(Servers[i]) = {} \/ ~(errs \/ 5 + i <= Left)
    <3>1. CASE Left = 5 + i
      <4>1. Drained => InFlight(Servers[i]) = {}
        <5>1. /\ Top = Servers[i] /\ Top \in ServerNames
              /\ Top # "consumers-cancel" /\ Top # "pg"
          <6>1. Top = Servers[i]
            BY <1>1, <3>1, TopIs
          <6> QED  BY <6>1, Names
        <5> QED  BY <5>1 DEF Drained
      <4> QED  BY <1>5, <4>1
    <3>2. CASE Left # 5 + i
      BY <1>4, <2>2, <2>4, <3>2
    <3> QED  BY <3>1, <3>2
  <2>7. ASSUME NEW w \in Workers \cup {Late}, worker[w] \in {"idle", "using"}
        PROVE  errs' \/ 5 <= Left'
    <3>1. GoroutinesDone => worker[w] \in {"none", "done"}
      BY DEF GoroutinesDone, LifeInv, LifeType, UsingType
    <3> QED  BY <2>5, <2>7, <3>1 DEF LifeInv, UserInv
  <2>8. ASSUME NEW s \in ServerNames, watcher[s] = "running" PROVE errs' \/ 5 <= Left'
    BY <2>5, <2>8 DEF GoroutinesDone, LifeInv, UserInv
  <2>9. ASSUME NEW r \in Requests, NEW i \in 1..N,
               request[r] \in {"running", "using"}, at[r] = Servers[i]
        PROVE  errs' \/ 5 + i <= Left'
    <3>1. InFlight(Servers[i]) # {}
      BY <2>9 DEF InFlight
    <3> QED  BY <2>6, <2>9, <3>1 DEF LifeInv, UserInv
  <2>10. \A r \in Requests : request'[r] \in {"running", "using"} => at'[r] \in ServerNames
    BY <1>5 DEF LifeInv, UserInv
  <2> QED  BY <1>5, <2>1, <2>3, <2>7, <2>8, <2>9, <2>10 DEF UserInv
<1>12. EndInv'
  BY <1>1, <1>5 DEF LifeInv, EndInv, ExitCodeHonest, CloseEnds, ending
<1> QED  BY <1>6, <1>7, <1>8, <1>9, <1>10, <1>11, <1>12 DEF LifeInv

AllOver == GoroutinesDone /\ \A s \in ServerNames : InFlight(s) = {}

\* The list has been worked through without an error.
LEMMA ListEmpty ==
    ASSUME LifeInv, Left = 0, ~errs
    PROVE  AllOver
<1>1. ~(5 <= 0) /\ \A i \in 1..N : ~(5 + i <= 0)
  BY SMT, Names
<1>2. \A w \in Workers \cup {Late} : worker[w] \in {"none", "done"}
  BY <1>1 DEF LifeInv, LifeType, UsingType, UserInv
<1>3. \A s \in ServerNames : watcher[s] # "running"
  BY <1>1 DEF LifeInv, UserInv
<1>4. ASSUME NEW s \in ServerNames PROVE InFlight(s) = {}
  <2>1. PICK i \in 1..N : s = Servers[i]
    BY Names
  <2> QED  BY <1>1, <2>1 DEF LifeInv, UserInv, InFlight
<1>5. DOMAIN worker = Workers \cup {Late}
  BY DEF LifeInv, LifeType, UsingType
<1> QED  BY <1>2, <1>3, <1>4, <1>5 DEF AllOver, GoroutinesDone

LEMMA ExitKeeps ==
    ASSUME LifeInv, Exit
    PROVE  LifeInv'
<1>1. Left' = Left /\ Unbegun' = Unbegun /\ main' = "exited" /\ Left = 0
  <2>1. closer = <<>> => Len(closer) = 0
    BY SMT
  <2> QED  BY <2>1, SameList DEF Exit, teardown, Left
<1>2. LifeType'
  <2>1. BootType'
    BY DEF LifeInv, LifeType, BootType, Exit
  <2> QED  BY <2>1, TypeFrame DEF LifeInv, LifeType, Exit
<1>3. StackInv'
  BY <1>1 DEF LifeInv, StackInv, Exit, teardown
<1>4. OpenInv'
  BY <1>1 DEF LifeInv, OpenInv, Exit, teardown
<1>5. ListenInv'
  BY <1>1 DEF LifeInv, ListenInv, Exit, teardown, serving
<1>6. DrainInv'
  BY <1>1 DEF DrainInv
<1>7. UserInv'
  BY <1>1 DEF LifeInv, UserInv, Exit, teardown, serving, using
<1>8. EndInv'
  <2>1. ASSUME code' = 0
        PROVE  /\ signals > 0 /\ ~failed
               /\ \A w \in DOMAIN worker : worker[w] \in {"none", "done"}
               /\ \A s \in ServerNames : InFlight(s) = {}
    <3>1. ~failed /\ ~errs /\ ~fatalSeen
      <4>1. 1 # 0
        BY SMT
      <4> QED  BY <2>1, <4>1 DEF Exit
    <3>2. signals > 0
      BY <3>1 DEF Exit, LifeInv, EndInv
    <3>3. AllOver
      BY <1>1, <3>1, ListEmpty
    <3> QED  BY <3>1, <3>2, <3>3 DEF AllOver, GoroutinesDone
  <2> QED  BY <1>1, <2>1 DEF LifeInv, EndInv, ExitCodeHonest, InFlight, Exit, serving, ending, using
<1> QED  BY <1>2, <1>3, <1>4, <1>5, <1>6, <1>7, <1>8 DEF LifeInv

-----------------------------------------------------------------------------
(* Workers and requests.                                                   *)

\* Until the goroutines have been waited for, nothing they use is closed.
LEMMA Reserve ==
    ASSUME LifeInv
    PROVE  5 <= Left => 1 <= Unbegun /\ 2 <= Unbegun /\ 3 <= Unbegun /\ 4 <= Unbegun
<1>1. Left \in Nat /\ (Unbegun = Left \/ Unbegun = Left - 1)
  BY Counted DEF LifeInv, LifeType, TeardownType
<1> QED  BY SMT, <1>1

LEMMA WorkerAcquiresKeeps ==
    ASSUME LifeInv, NEW w \in Workers \cup {Late}, WorkerAcquires(w)
    PROVE  LifeInv'
<1>1. Left' = Left /\ Unbegun' = Unbegun
  BY SameList DEF WorkerAcquires, teardown
<1>2. LifeType'
  <2>1. UsingType'
    <3>1. worker' \in [Workers \cup {Late} -> {"none", "idle", "using", "done"}]
      BY DEF LifeInv, LifeType, UsingType, WorkerAcquires
    <3>2. refused' \in BOOLEAN
      BY DEF WorkerAcquires, Uses
    <3> QED  BY <3>1, <3>2 DEF LifeInv, LifeType, UsingType, WorkerAcquires
  <2> QED  BY <2>1, TypeFrame DEF LifeInv, LifeType, WorkerAcquires
<1>3. StackInv'
  BY <1>1 DEF LifeInv, StackInv, WorkerAcquires, boot, teardown
<1>4. OpenInv'
  BY <1>1 DEF LifeInv, OpenInv, WorkerAcquires, boot, teardown
<1>5. ListenInv'
  BY <1>1 DEF LifeInv, ListenInv, WorkerAcquires, boot, teardown, serving
<1>6. DrainInv'
  BY <1>1 DEF LifeInv, DrainInv, WorkerAcquires, boot, teardown
<1>7. UserInv'
  <2>1. ASSUME NEW v \in Workers \cup {Late}, worker'[v] \in {"idle", "using"}
        PROVE  worker[v] \in {"idle", "using"}
    BY <2>1 DEF WorkerAcquires, LifeInv, LifeType, UsingType
  <2>2. errs \/ 5 <= Left
    BY DEF WorkerAcquires, LifeInv, UserInv
  <2>3. 5 <= Left => "pg" \in open
    BY Reserve DEF LifeInv, OpenInv
  <2>4. refused' => errs
    BY <2>2, <2>3 DEF WorkerAcquires, Uses, LifeInv, UserInv
  <2> QED  BY <1>1, <2>1, <2>4 DEF LifeInv, UserInv, WorkerAcquires, teardown, serving
<1>8. EndInv'
  BY DEF LifeInv, EndInv, ExitCodeHonest, WorkerAcquires, Alive, boot, ending
<1> QED  BY <1>2, <1>3, <1>4, <1>5, <1>6, <1>7, <1>8 DEF LifeInv

LEMMA WorkerReleasesKeeps ==
    ASSUME LifeInv, NEW w \in Workers \cup {Late}, WorkerReleases(w)
    PROVE  LifeInv'
<1>1. Left' = Left /\ Unbegun' = Unbegun
  BY SameList DEF WorkerReleases, teardown
<1>2. LifeType'
  <2>1. UsingType'
    BY DEF LifeInv, LifeType, UsingType, WorkerReleases
  <2> QED  BY <2>1, TypeFrame DEF LifeInv, LifeType, WorkerReleases
<1>3. StackInv'
  BY <1>1 DEF LifeInv, StackInv, WorkerReleases, boot, teardown
<1>4. OpenInv'
  BY <1>1 DEF LifeInv, OpenInv, WorkerReleases, boot, teardown
<1>5. ListenInv'
  BY <1>1 DEF LifeInv, ListenInv, WorkerReleases, boot, teardown, serving
<1>6. DrainInv'
  BY <1>1 DEF LifeInv, DrainInv, WorkerReleases, boot, teardown
<1>7. UserInv'
  <2>1. ASSUME NEW v \in Workers \cup {Late}, worker'[v] \in {"idle", "using"}
        PROVE  worker[v] \in {"idle", "using"}
    BY <2>1 DEF WorkerReleases, LifeInv, LifeType, UsingType
  <2> QED  BY <1>1, <2>1 DEF LifeInv, UserInv, WorkerReleases, teardown, serving
<1>8. EndInv'
  BY DEF LifeInv, EndInv, ExitCodeHonest, WorkerReleases, Alive, boot, ending
<1> QED  BY <1>2, <1>3, <1>4, <1>5, <1>6, <1>7, <1>8 DEF LifeInv

LEMMA WorkerExitsKeeps ==
    ASSUME LifeInv, NEW w \in Workers \cup {Late}, WorkerExits(w)
    PROVE  LifeInv'
<1>1. Left' = Left /\ Unbegun' = Unbegun
  BY SameList DEF WorkerExits, teardown
<1>2. LifeType'
  <2>1. UsingType'
    <3>1. worker' \in [Workers \cup {Late} -> {"none", "idle", "using", "done"}]
      BY DEF LifeInv, LifeType, UsingType, WorkerExits
    <3>2. refused' \in BOOLEAN
      BY DEF WorkerExits, Uses
    <3> QED  BY <3>1, <3>2 DEF LifeInv, LifeType, UsingType, WorkerExits
  <2> QED  BY <2>1, TypeFrame DEF LifeInv, LifeType, WorkerExits
<1>3. StackInv'
  BY <1>1 DEF LifeInv, StackInv, WorkerExits, boot, teardown
<1>4. OpenInv'
  BY <1>1 DEF LifeInv, OpenInv, WorkerExits, boot, teardown
<1>5. ListenInv'
  BY <1>1 DEF LifeInv, ListenInv, WorkerExits, boot, teardown, serving
<1>6. DrainInv'
  BY <1>1 DEF LifeInv, DrainInv, WorkerExits, boot, teardown
<1>7. UserInv'
  <2>1. ASSUME NEW v \in Workers \cup {Late}, worker'[v] \in {"idle", "using"}
        PROVE  worker[v] \in {"idle", "using"}
    BY <2>1 DEF WorkerExits, LifeInv, LifeType, UsingType
  <2>2. errs \/ 5 <= Left
    BY DEF WorkerExits, LifeInv, UserInv
  <2>3. 5 <= Left => "consumer" \in open
    BY Reserve DEF LifeInv, OpenInv
  <2>4. refused' => errs
    BY <2>2, <2>3 DEF WorkerExits, Uses, LifeInv, UserInv
  <2> QED  BY <1>1, <2>1, <2>4 DEF LifeInv, UserInv, WorkerExits, teardown, serving
<1>8. EndInv'
  BY DEF LifeInv, EndInv, ExitCodeHonest, WorkerExits, Alive, boot, ending
<1> QED  BY <1>2, <1>3, <1>4, <1>5, <1>6, <1>7, <1>8 DEF LifeInv

LEMMA RequestArrivesKeeps ==
    ASSUME LifeInv, NEW r \in Requests, NEW s \in ServerNames, RequestArrives(r, s)
    PROVE  LifeInv'
<1>1. Left' = Left /\ Unbegun' = Unbegun
  BY SameList DEF RequestArrives, teardown
<1>2. LifeType'
  <2>1. UsingType'
    BY DEF LifeInv, LifeType, UsingType, RequestArrives
  <2> QED  BY <2>1, TypeFrame DEF LifeInv, LifeType, RequestArrives
<1>3. StackInv'
  BY <1>1 DEF LifeInv, StackInv, RequestArrives, boot, teardown
<1>4. OpenInv'
  BY <1>1 DEF LifeInv, OpenInv, RequestArrives, boot, teardown
<1>5. ListenInv'
  BY <1>1 DEF LifeInv, ListenInv, RequestArrives, boot, teardown, serving
<1>6. DrainInv'
  BY <1>1 DEF LifeInv, DrainInv, RequestArrives, boot, teardown
<1>7. UserInv'
  <2>1. PICK j \in 1..N : s = Servers[j]
    BY Names
  <2>2. 5 + j <= Left
    <3>1. 5 + j <= Unbegun
      BY <2>1 DEF RequestArrives, LifeInv, ListenInv
    <3>2. Left \in Nat /\ (Unbegun = Left \/ Unbegun = Left - 1)
      BY Counted DEF LifeInv, LifeType, TeardownType
    <3> QED  BY SMT, <3>1, <3>2
  <2>3. ASSUME NEW q \in Requests, request'[q] \in {"running", "using"}
        PROVE  at'[q] = s \/ (request[q] \in {"running", "using"} /\ at'[q] = at[q])
    <3>1. CASE q = r
      BY <3>1 DEF RequestArrives, LifeInv, LifeType, UsingType
    <3>2. CASE q # r
      BY <2>3, <3>2 DEF RequestArrives, LifeInv, LifeType, UsingType
    <3> QED  BY <3>1, <3>2
  <2>4. ASSUME NEW q \in Requests, NEW i \in 1..N,
               request'[q] \in {"running", "using"}, at'[q] = Servers[i]
        PROVE  errs \/ 5 + i <= Left
    <3>1. CASE at'[q] = s
      BY <2>1, <2>2, <2>4, <3>1, Names
    <3>2. CASE request[q] \in {"running", "using"} /\ at'[q] = at[q]
      BY <2>4, <3>2 DEF LifeInv, UserInv
    <3> QED  BY <2>3, <2>4, <3>1, <3>2
  <2>5. \A q \in Requests : request'[q] \in {"running", "using"} => at'[q] \in ServerNames
    BY <2>3 DEF LifeInv, UserInv
  <2> QED  BY <1>1, <2>4, <2>5 DEF LifeInv, UserInv, RequestArrives, teardown, serving
<1>8. EndInv'
  BY DEF LifeInv, EndInv, ExitCodeHonest, RequestArrives, Alive, boot, ending
<1> QED  BY <1>2, <1>3, <1>4, <1>5, <1>6, <1>7, <1>8 DEF LifeInv

\* A request in flight has its server before it, and the goroutines.
LEMMA RequestsAlive ==
    ASSUME LifeInv, NEW r \in Requests, request[r] \in {"running", "using"}
    PROVE  errs \/ 5 <= Left
<1>1. PICK i \in 1..N : at[r] = Servers[i]
  BY Names DEF LifeInv, UserInv
<1>2. errs \/ 5 + i <= Left
  BY <1>1 DEF LifeInv, UserInv
<1>3. 5 + i <= Left => 5 <= Left
  BY SMT, Counted
<1> QED  BY <1>2, <1>3

LEMMA RequestAcquiresKeeps ==
    ASSUME LifeInv, NEW r \in Requests, RequestAcquires(r)
    PROVE  LifeInv'
<1>1. Left' = Left /\ Unbegun' = Unbegun
  BY SameList DEF RequestAcquires, teardown
<1>2. LifeType'
  <2>1. UsingType'
    <3>1. request' \in [Requests -> {"none", "running", "using", "done"}]
      BY DEF LifeInv, LifeType, UsingType, RequestAcquires
    <3>2. refused' \in BOOLEAN
      BY DEF RequestAcquires, Uses
    <3> QED  BY <3>1, <3>2 DEF LifeInv, LifeType, UsingType, RequestAcquires
  <2> QED  BY <2>1, TypeFrame DEF LifeInv, LifeType, RequestAcquires
<1>3. StackInv'
  BY <1>1 DEF LifeInv, StackInv, RequestAcquires, boot, teardown
<1>4. OpenInv'
  BY <1>1 DEF LifeInv, OpenInv, RequestAcquires, boot, teardown
<1>5. ListenInv'
  BY <1>1 DEF LifeInv, ListenInv, RequestAcquires, boot, teardown, serving
<1>6. DrainInv'
  BY <1>1 DEF LifeInv, DrainInv, RequestAcquires, boot, teardown
<1>7. UserInv'
  <2>1. ASSUME NEW q \in Requests, request'[q] \in {"running", "using"}
        PROVE  request[q] \in {"running", "using"}
    BY <2>1 DEF RequestAcquires, LifeInv, LifeType, UsingType
  <2>2. errs \/ 5 <= Left
    BY RequestsAlive DEF RequestAcquires
  <2>3. 5 <= Left => "pg" \in open
    BY Reserve DEF LifeInv, OpenInv
  <2>4. refused' => errs
    BY <2>2, <2>3 DEF RequestAcquires, Uses, LifeInv, UserInv
  <2> QED  BY <1>1, <2>1, <2>4 DEF LifeInv, UserInv, RequestAcquires, teardown, serving
<1>8. EndInv'
  BY DEF LifeInv, EndInv, ExitCodeHonest, RequestAcquires, Alive, boot, ending
<1> QED  BY <1>2, <1>3, <1>4, <1>5, <1>6, <1>7, <1>8 DEF LifeInv

LEMMA RequestFinishesKeeps ==
    ASSUME LifeInv, NEW r \in Requests, RequestFinishes(r)
    PROVE  LifeInv'
<1>1. Left' = Left /\ Unbegun' = Unbegun
  BY SameList DEF RequestFinishes, teardown
<1>2. LifeType'
  <2>1. UsingType'
    <3>1. request' \in [Requests -> {"none", "running", "using", "done"}]
      BY DEF LifeInv, LifeType, UsingType, RequestFinishes
    <3>2. refused' \in BOOLEAN
      BY DEF RequestFinishes, Uses
    <3> QED  BY <3>1, <3>2 DEF LifeInv, LifeType, UsingType, RequestFinishes
  <2> QED  BY <2>1, TypeFrame DEF LifeInv, LifeType, RequestFinishes
<1>3. StackInv'
  BY <1>1 DEF LifeInv, StackInv, RequestFinishes, boot, teardown
<1>4. OpenInv'
  BY <1>1 DEF LifeInv, OpenInv, RequestFinishes, boot, teardown
<1>5. ListenInv'
  BY <1>1 DEF LifeInv, ListenInv, RequestFinishes, boot, teardown, serving
<1>6. DrainInv'
  BY <1>1 DEF LifeInv, DrainInv, RequestFinishes, boot, teardown
<1>7. UserInv'
  <2>1. ASSUME NEW q \in Requests, request'[q] \in {"running", "using"}
        PROVE  request[q] \in {"running", "using"}
    BY <2>1 DEF RequestFinishes, LifeInv, LifeType, UsingType
  <2>2. errs \/ 5 <= Left
    BY RequestsAlive DEF RequestFinishes
  <2>3. 5 <= Left => "kafka" \in open
    BY Reserve DEF LifeInv, OpenInv
  <2>4. refused' => errs
    BY <2>2, <2>3 DEF RequestFinishes, Uses, LifeInv, UserInv
  <2> QED  BY <1>1, <2>1, <2>4 DEF LifeInv, UserInv, RequestFinishes, teardown, serving
<1>8. EndInv'
  BY DEF LifeInv, EndInv, ExitCodeHonest, RequestFinishes, Alive, boot, ending
<1> QED  BY <1>2, <1>3, <1>4, <1>5, <1>6, <1>7, <1>8 DEF LifeInv

LEMMA RequestFailsKeeps ==
    ASSUME LifeInv, NEW r \in Requests, RequestFails(r)
    PROVE  LifeInv'
<1>1. Left' = Left /\ Unbegun' = Unbegun
  BY SameList DEF RequestFails, teardown
<1>2. LifeType'
  <2>1. UsingType'
    BY DEF LifeInv, LifeType, UsingType, RequestFails
  <2> QED  BY <2>1, TypeFrame DEF LifeInv, LifeType, RequestFails
<1>3. StackInv'
  BY <1>1 DEF LifeInv, StackInv, RequestFails, boot, teardown
<1>4. OpenInv'
  BY <1>1 DEF LifeInv, OpenInv, RequestFails, boot, teardown
<1>5. ListenInv'
  BY <1>1 DEF LifeInv, ListenInv, RequestFails, boot, teardown, serving
<1>6. DrainInv'
  BY <1>1 DEF LifeInv, DrainInv, RequestFails, boot, teardown
<1>7. UserInv'
  <2>1. ASSUME NEW q \in Requests, request'[q] \in {"running", "using"}
        PROVE  request[q] \in {"running", "using"}
    BY <2>1 DEF RequestFails, LifeInv, LifeType, UsingType
  <2> QED  BY <1>1, <2>1 DEF LifeInv, UserInv, RequestFails, teardown, serving
<1>8. EndInv'
  BY DEF LifeInv, EndInv, ExitCodeHonest, RequestFails, Alive, boot, ending
<1> QED  BY <1>2, <1>3, <1>4, <1>5, <1>6, <1>7, <1>8 DEF LifeInv

-----------------------------------------------------------------------------
(* The theorems.                                                           *)

LEMMA NextKeeps ==
    ASSUME LifeInv, [Next]_vars
    PROVE  LifeInv'
<1>1. CASE Main
  BY <1>1, BuildKeeps, StartAdminKeeps, LaunchKeeps, StartServerKeeps, StartedKeeps, RunWakesKeeps,
     CloseBeginsKeeps, CloseEndsKeeps, ExitKeeps DEF Main
<1>2. CASE Environment
  BY <1>2, BuildFailsKeeps, StartServerFailsKeeps, SignalKeeps, HardQuitKeeps, ListenerDiesKeeps,
     RequestArrivesKeeps DEF Environment
<1>3. CASE FatalWatch \/ BudgetExpires \/ \E s \in ServerNames : WatchServe(s)
  BY <1>3, FatalWatchKeeps, BudgetExpiresKeeps, WatchServeKeeps
<1>4. ASSUME NEW w \in DOMAIN worker, WorkerSteps(w) PROVE LifeInv'
  <2>1. w \in Workers \cup {Late}
    BY DEF LifeInv, LifeType, UsingType
  <2> QED  BY <1>4, <2>1, WorkerAcquiresKeeps, WorkerReleasesKeeps, WorkerExitsKeeps DEF WorkerSteps
<1>5. ASSUME NEW r \in Requests, RequestSteps(r) PROVE LifeInv'
  BY <1>5, RequestAcquiresKeeps, RequestFinishesKeeps, RequestFailsKeeps DEF RequestSteps
<1>6. CASE UNCHANGED vars
  <2>1. UNCHANGED <<boot, teardown, serving, ending, using>>
    BY <1>6 DEF vars
  <2>2. Left' = Left /\ Unbegun' = Unbegun
    BY <2>1, SameList DEF teardown
  <2>3. LifeType'
    BY <2>1, TypeFrame DEF LifeInv, LifeType
  <2>4. StackInv' /\ OpenInv' /\ DrainInv'
    <3>1. StackInv'
      BY <2>1, <2>2 DEF LifeInv, StackInv, boot, teardown
    <3>2. OpenInv'
      BY <2>1, <2>2 DEF LifeInv, OpenInv, boot, teardown
    <3>3. DrainInv'
      BY <2>1, <2>2 DEF LifeInv, DrainInv, boot, teardown
    <3> QED  BY <3>1, <3>2, <3>3
  <2>5. ListenInv'
    BY <2>1, <2>2 DEF LifeInv, ListenInv, boot, teardown, serving
  <2>6. UserInv'
    BY <2>1, <2>2 DEF LifeInv, UserInv, teardown, serving, using
  <2>7. EndInv'
    BY <2>1 DEF LifeInv, EndInv, ExitCodeHonest, InFlight, boot, ending, using
  <2> QED  BY <2>3, <2>4, <2>5, <2>6, <2>7 DEF LifeInv
<1> QED  BY <1>1, <1>2, <1>3, <1>4, <1>5, <1>6 DEF Next, Gone

LEMMA LifeInvariant == Spec => []LifeInv
  BY InitKeeps, NextKeeps, PTL DEF Spec

\* Users stay ahead of the resources they use, and /readyz ahead of both: no
\* worker or request meets a closed pool or client while the budget lasts, and
\* no public listener of a started service is shut before the drain gate
\* (Closer.Close in reverse order, the waits of its teardown functions).
THEOREM TeardownInOrder == Spec => []TeardownOrder
<1>1. ASSUME LifeInv PROVE NoUseAfterClose
  BY <1>1 DEF LifeInv, UserInv, NoUseAfterClose
<1>2. ASSUME LifeInv, NEW s \in ServerNames
      PROVE  /\ listener[s] = "shut" /\ ~failed => ~ready
             /\ listener[s] \in {"serving", "dead"} /\ started /\ ~adminBindOptional
                  => "admin" \in open
  <2>1. PICK i \in 1..N : s = Servers[i]
    BY Names
  <2>2. \A i1 \in 1..N : 5 + i1 <= Unbegun => 1 <= Unbegun
    BY SMT, <1>2, Counted
  <2> QED  BY <1>2, <2>1, <2>2 DEF LifeInv, ListenInv
<1>3. LifeInv => TeardownOrder
  BY <1>1, <1>2 DEF TeardownOrder, ProbesSeeTheDrain
<1> QED  BY <1>3, LifeInvariant, PTL

\* Whichever step of Start failed and whatever ran out of time, the worked-off
\* list of closers leaves no listener bound and no resource open, and within
\* the budget no goroutine and no request (Closer.Close, Service.Start).
THEOREM NothingIsLeftBehind == Spec => []NothingLeftBehind
<1>1. ASSUME LifeInv, main = "closing", closer = <<>>
      PROVE  /\ open = {}
             /\ \A s \in ServerNames : listener[s] \in {"none", "shut"}
             /\ expired \/ (GoroutinesDone /\ \A s \in ServerNames : InFlight(s) = {})
  <2>1. Left = 0
    BY SMT, <1>1 DEF Left
  <2>2. Unbegun = 0
    <3>1. ~(0 >= 1)
      BY SMT
    <3> QED  BY <1>1, <2>1, <3>1, Counted DEF LifeInv, LifeType, TeardownType
  <2>3. /\ ~(1 <= 0) /\ ~(2 <= 0) /\ ~(3 <= 0) /\ ~(4 <= 0)
        /\ \A i \in 1..N : ~(5 + i <= 0)
    BY SMT, Names
  <2>4. open = {}
    BY <1>1, <2>2, <2>3 DEF LifeInv, OpenInv, LifeType, TeardownType, Resources
  <2>5. ASSUME NEW s \in ServerNames PROVE listener[s] \in {"none", "shut"}
    <3>1. PICK i \in 1..N : s = Servers[i]
      BY Names
    <3>2. listener[s] \in {"none", "serving", "dead", "shut"}
      BY <1>1 DEF LifeInv, LifeType, ServingType
    <3> QED  BY <1>1, <2>2, <2>3, <3>1, <3>2 DEF LifeInv, ListenInv
  <2>6. ~errs => AllOver
    BY <1>1, <2>1, ListEmpty
  <2> QED  BY <1>1, <2>4, <2>5, <2>6 DEF LifeInv, UserInv, AllOver
<1>2. LifeInv => NothingLeftBehind
  BY <1>1 DEF NothingLeftBehind
<1> QED  BY <1>2, LifeInvariant, PTL

\* Exit code 0 means that a signal asked for the shutdown and that every
\* goroutine and request was over; a dead listener, a failed start, a teardown
\* error or a second signal gives 1 (runMain).
THEOREM ExitCodeIsHonest == Spec => []ExitCodeHonest
<1>1. LifeInv => ExitCodeHonest
  BY DEF LifeInv, EndInv
<1> QED  BY <1>1, LifeInvariant, PTL
==================================================================================
