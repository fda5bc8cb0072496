-------------------------- MODULE Lifecycle_proofs --------------------------
(* The safety of Lifecycle for every number of reactors, clients and         *)
(* descriptors, and whatever the members hold that are not initialised.      *)
EXTENDS Lifecycle, FiniteSetTheorems, TLAPS

(* A set of natural numbers has a least element: induction in terms of sets. *)
LEMMA Least == ASSUME NEW S \in SUBSET Nat, S # {}
               PROVE  \E x \in S : \A y \in S : x <= y
<1> DEFINE Below(n) == 0 .. n - 1
           T == {Below(n) : n \in S}
<1>1. \A n \in Nat : Below(n) \in FiniteSubsetsOf(Nat)
  BY FS_Interval DEF FiniteSubsetsOf
<1>2. IsWellFoundedOn(StrictSubsetOrdering(Nat), FiniteSubsetsOf(Nat))
  BY FS_StrictSubsetOrderingWellFounded
<1>3. T \subseteq FiniteSubsetsOf(Nat) /\ T # {}
  BY <1>1
<1>4. PICK t \in T : \A u \in T : <<u, t>> \notin StrictSubsetOrdering(Nat)
  <2> HIDE DEF T
  <2> QED BY <1>2, <1>3, WFMin
<1>5. PICK x \in S : t = Below(x)
  OBVIOUS
<1>6. ASSUME NEW y \in S, y < x PROVE FALSE
  <2>1. Below(y) \in T /\ Below(y) \subseteq Below(x) /\ y \in Below(x) /\ y \notin Below(y)
    BY <1>6
  <2>2. <<Below(y), Below(x)>> \in StrictSubsetOrdering(Nat)
    BY <2>1 DEF StrictSubsetOrdering
  <2> QED BY <1>4, <1>5, <2>1, <2>2
<1> QED
  BY <1>6

-----------------------------------------------------------------------------
LEMMA Numbers == /\ Subs \in Nat \ {0} /\ Main = 0 /\ Main \in Reactors
                 /\ \A r \in 1 .. Subs : r \in Reactors /\ r # Main
                 /\ \A r \in Reactors : r \in Nat /\ r <= Subs /\ (r # Main => r \in 1 .. Subs)
                 /\ Stops = 2 * Subs + 2 /\ Logging = 2 * Subs + 3 /\ Sleeping = 2 * Subs + 4 /\ Back = 2 * Subs + 5
BY SubsAssumption DEF Reactors, Main, Stops, Logging, Sleeping, Back

(* Owners are told apart.                                                    *)
LEMMA Tags == /\ \A r \in Reactors : Epoll(r) \in Owners \ {Free, <<"listen">>, <<"mysql">>}
              /\ \A c \in Clients : Client(c) \in Owners \ {Free, <<"listen">>, <<"mysql">>}
              /\ \A r, q \in Reactors : Epoll(r) = Epoll(q) => r = q
              /\ \A b, c \in Clients : Client(b) = Client(c) => b = c
              /\ \A r \in Reactors, c \in Clients : Epoll(r) # Client(c)
              /\ <<"listen">> \in Owners \ {Free, <<"mysql">>}
              /\ <<"mysql">> \in Owners \ {Free}
              /\ Free \in Owners
BY DEF Owners, Epoll, Client, Free

LEMMA OwnersFinite == IsFiniteSet(Owners)
<1> DEFINE E == {Epoll(r) : r \in Reactors}
           C == {Client(c) : c \in Clients}
           T == {Free, <<"listen">>, <<"mysql">>}
<1>1. IsFiniteSet(E)
  <2> DEFINE f == [r \in Reactors |-> Epoll(r)]
  <2>1. f \in Surjection(Reactors, E)
    BY DEF Surjection
  <2>2. IsFiniteSet(Reactors)
    BY Numbers, FS_Interval DEF Reactors
  <2> HIDE DEF f, E
  <2> QED
    BY <2>1, <2>2, FS_Surjection
<1>2. IsFiniteSet(C)
  <2> DEFINE f == [c \in Clients |-> Client(c)]
  <2>1. f \in Surjection(Clients, C)
    BY DEF Surjection
  <2> HIDE DEF f, C
  <2> QED
    BY <2>1, FdsAssumption, FS_Surjection
<1>3. IsFiniteSet(T)
  <2>1. T = (({} \cup {Free}) \cup {<<"listen">>}) \cup {<<"mysql">>}
    OBVIOUS
  <2> HIDE DEF T
  <2> QED
    BY <2>1, FS_EmptySet, FS_AddElement
<1>4. Owners = (T \cup E) \cup C
  BY DEF Owners
<1> HIDE DEF E, C, T
<1> QED
  BY <1>1, <1>2, <1>3, <1>4, FS_Union

(* What a descriptor stands for, it alone stands for.                        *)
Injective(o) == \A f, g \in Fds : o[f] = o[g] /\ o[f] # Free => f = g
Absent(o, x) == \A f \in Fds : o[f] # x

(* Who has no descriptor yet will get one.                                   *)
LEMMA NewFdFree ==
    ASSUME NEW o \in [Fds -> Owners], NEW x \in Owners \ {Free}, Injective(o), Absent(o, x)
    PROVE  NewFd(o) \in Fds /\ o[NewFd(o)] = Free
<1> DEFINE S == {f \in Fds : o[f] = Free}
<1>1. S # {}
  <2> SUFFICES ASSUME S = {} PROVE FALSE
    OBVIOUS
  <2> DEFINE U == Owners \ {Free}
             T == U \ {x}
  <2>1. o \in [Fds -> T]
    BY DEF Absent
  <2>2. /\ IsFiniteSet(U) /\ IsFiniteSet(T) /\ Cardinality(T) = Cardinality(U) - 1
        /\ Cardinality(U) \in Nat
    <3>1. IsFiniteSet(U)
      BY OwnersFinite, FS_RemoveElement
    <3>2. x \in U
      OBVIOUS
    <3> HIDE DEF U
    <3> QED
      BY <3>1, <3>2, FS_RemoveElement, FS_CardinalityType
  <2>3. IsFiniteSet(Fds) /\ Cardinality(Fds) \in Nat /\ Cardinality(Fds) >= Cardinality(U)
    BY FdsAssumption, EnoughAssumption, FS_CardinalityType
  <2>4. \A f \in Fds : o[f] # Free
    OBVIOUS
  <2> HIDE DEF S, T, U
  <2>5. Cardinality(T) < Cardinality(Fds)
    BY <2>2, <2>3
  <2>6. PICK f, g \in Fds : f # g /\ o[f] = o[g]
    BY <2>1, <2>2, <2>3, <2>5, FS_PigeonHole
  <2> QED
    BY <2>4, <2>6 DEF Injective
<1>2. S \in SUBSET Nat
  BY FdsAssumption
<1>3. PICK m \in S : \A k \in S : m <= k
  BY <1>1, <1>2, Least
<1>4. Min(S) \in S
  <2> HIDE DEF S
  <2> QED
    BY <1>3 DEF Min
<1> QED
  BY <1>4 DEF NewFd

(* What With does to the table of descriptors.                               *)
LEMMA WithNew ==
    ASSUME NEW o \in [Fds -> Owners], NEW x \in Owners \ {Free}, Injective(o), Absent(o, x)
    PROVE  /\ With(o, x) \in [Fds -> Owners] /\ Injective(With(o, x))
           /\ NewFd(o) \in Fds /\ With(o, x)[NewFd(o)] = x
           /\ \A f \in Fds : o[f] # Free => With(o, x)[f] = o[f]
           /\ \A y \in Owners \ {Free, x} : Absent(o, y) => Absent(With(o, x), y)
<1>1. NewFd(o) \in Fds /\ o[NewFd(o)] = Free
  BY NewFdFree
<1>2. \A f \in Fds : With(o, x)[f] = IF f = NewFd(o) THEN x ELSE o[f]
  BY DEF With
<1>3. With(o, x) \in [Fds -> Owners]
  BY <1>1 DEF With
<1>4. Injective(With(o, x))
  BY <1>2 DEF Injective, Absent
<1> QED
  BY <1>1, <1>2, <1>3, <1>4 DEF Absent

(* Without and a close only free descriptors.                                *)
Freed(p, o) == p \in [Fds -> Owners] /\ \A f \in Fds : p[f] \in {Free, o[f]}

LEMMA FreedKeeps ==
    ASSUME NEW o, NEW p, Freed(p, o)
    PROVE  /\ Injective(o) => Injective(p)
           /\ \A y : y # Free /\ Absent(o, y) => Absent(p, y)
BY DEF Freed, Injective, Absent

LEMMA WithoutFreed ==
    ASSUME own \in [Fds -> Owners], NEW x \in Owners
    PROVE  /\ Freed(Without(x), own)
           /\ x # Free => Absent(Without(x), x)
           /\ \A f \in Fds : own[f] # x => Without(x)[f] = own[f]
BY Tags DEF Without, Freed, Absent

Names == /\ Injective(own)
         /\ \A r \in Reactors : at[r] = "epoll" => Absent(own, Epoll(r))
         /\ at[Main] \in {"epoll", "listen"} => Absent(own, <<"listen">>)
         /\ \A c \in Clients : place[c] \in {"new", "pending"} => Absent(own, Client(c))

(* Where the main thread and term() may stand together.                      *)
Places == /\ quit[Main] => h # 0
          /\ at[Main] \in {"destroy", "stop", "delete", "ended"} => h = Back
          /\ at[Main] = "stop" => d \in 1 .. 2 * Subs
          /\ at[Main] = "delete" => d \in 1 .. Subs
          /\ h # Back => live = 1 .. Subs

(* A reactor that got a batch after its quit was set does not wait again.    *)
Late == \A r \in Reactors :
            \/ late[r] = 0
            \/ late[r] = 1 /\ quit[r] /\ at[r] \notin {"epoll", "listen", "call", "wait"}

(* A reactor that has made its epoll set has it until term() closes it.      *)
Sets == \A r \in Reactors : at[r] # "epoll" /\ h <= 2 * r + 2 => own[epfd[r]] = Epoll(r)

IInv == /\ TypeOK /\ Names /\ Places /\ Late
        /\ "early" \notin wrong => Sets
        /\ TermClosesOwn

LEMMA LifecycleInit == Init => IInv
<1> SUFFICES ASSUME Init PROVE IInv
  OBVIOUS
<1> USE Numbers, FdsAssumption
<1>1. PICK m \in {Min(Fds)} : own = [f \in Fds |-> IF f = m THEN <<"mysql">> ELSE Free]
  BY DEF Init
<1>2. /\ epfd \in [Reactors -> Garbage]
      /\ quit = [r \in Reactors |-> FALSE]
      /\ at = [r \in Reactors |-> "epoll"]
      /\ live = Reactors \ {Main} /\ h = 0 /\ d = 0
      /\ place = [c \in Clients |-> "new"]
      /\ home = [c \in Clients |-> Main] /\ mon = [c \in Clients |-> Main]
      /\ wrong = {}
  BY DEF Init
<1>3. /\ reconnected = FALSE /\ touched = FALSE
      /\ set = [r \in Reactors |-> r] /\ late = [r \in Reactors |-> 0]
  BY DEF Init
<1>4. own \in [Fds -> Owners]
  BY <1>1, Tags
<1>5. TypeOK
  <2>1. epfd \in [Reactors -> Fds]
    BY <1>2
  <2>2. 0 \in 0 .. Back /\ 0 \in 0 .. Stops
    OBVIOUS
  <2>3. /\ quit \in [Reactors -> BOOLEAN]
        /\ reconnected \in BOOLEAN /\ touched \in BOOLEAN
        /\ set \in [Reactors -> Reactors] /\ late \in [Reactors -> Nat]
    BY <1>2, <1>3
  <2> QED
    BY <1>2, <1>4, <2>1, <2>2, <2>3 DEF TypeOK
<1>6. Names
  <2>1. Injective(own)
    BY <1>1 DEF Injective
  <2>2. \A x \in Owners \ {Free, <<"mysql">>} : Absent(own, x)
    BY <1>1 DEF Absent
  <2> QED
    BY <2>1, <2>2, Tags DEF Names
<1>7. Places
  <2>1. Reactors \ {Main} = 1 .. Subs
    OBVIOUS
  <2> QED
    BY <1>2, <2>1 DEF Places
<1>8. Late /\ Sets
  BY <1>2, <1>3 DEF Late, Sets
<1> QED
  BY <1>2, <1>3, <1>5, <1>6, <1>7, <1>8 DEF IInv, TermClosesOwn
-----------------------------------------------------------------------------
(* The loops of the reactors.                                                *)
LEMMA StepEPollstart == ASSUME IInv, NEW r \in Reactors, EPollstart(r) PROVE IInv'
<1> DEFINE to == IF r = Main THEN "listen" ELSE "test"
           f == NewFd(own)
<1>1. TypeOK /\ Names /\ Places /\ Late
  BY DEF IInv
<1>2. /\ at[r] = "epoll" /\ at' = [at EXCEPT ![r] = to]
      /\ epfd' = [epfd EXCEPT ![r] = f] /\ own' = With(own, Epoll(r))
      /\ UNCHANGED <<quit, live, h, d, place, home, mon, reconnected, wrong, set, late, touched>>
  BY DEF EPollstart, Goto, conns, waits, flags
<1>3. /\ own' \in [Fds -> Owners] /\ Injective(own')
      /\ f \in Fds /\ own'[f] = Epoll(r)
      /\ \A g \in Fds : own[g] # Free => own'[g] = own[g]
      /\ \A y \in Owners \ {Free, Epoll(r)} : Absent(own, y) => Absent(own', y)
  <2>1. own \in [Fds -> Owners] /\ Injective(own) /\ Absent(own, Epoll(r))
    BY <1>1, <1>2 DEF TypeOK, Names
  <2>2. Epoll(r) \in Owners \ {Free}
    BY Tags
  <2> QED
    BY <1>2, <2>1, <2>2, WithNew
<1> HIDE DEF f
<1>4. TypeOK'
  BY <1>1, <1>2, <1>3 DEF TypeOK
<1>5. \A q \in Reactors : at'[q] = IF q = r THEN to ELSE at[q]
  BY <1>1, <1>2 DEF TypeOK
<1>6. Names'
  <2>1. \A q \in Reactors : at'[q] = "epoll" => at[q] = "epoll" /\ q # r
    BY <1>5
  <2>2. \A q \in Reactors : at'[q] = "epoll" => Absent(own', Epoll(q))
    BY <1>1, <1>3, <2>1, Tags DEF Names
  <2>3. at'[Main] \in {"epoll", "listen"} => at[Main] \in {"epoll", "listen"}
    BY <1>2, <1>5, Numbers
  <2>4. at'[Main] \in {"epoll", "listen"} => Absent(own', <<"listen">>)
    BY <1>1, <1>3, <2>3, Tags DEF Names
  <2>5. \A c \in Clients : place'[c] \in {"new", "pending"} => Absent(own', Client(c))
    BY <1>1, <1>2, <1>3, Tags DEF Names
  <2> QED
    BY <1>3, <2>2, <2>4, <2>5 DEF Names
<1>7. Places'
  BY <1>1, <1>2, <1>5, Numbers DEF Places
<1>8. Late'
  BY <1>1, <1>2, <1>5, Numbers DEF Late, TypeOK
<1>9. ASSUME "early" \notin wrong' PROVE Sets'
  <2>1. Sets
    BY <1>2, <1>9 DEF IInv
  <2>2. ASSUME NEW q \in Reactors, at'[q] # "epoll", h' <= 2 * q + 2
        PROVE  own'[epfd'[q]] = Epoll(q)
    <3>1. CASE q = r
      BY <1>1, <1>2, <1>3, <3>1 DEF TypeOK
    <3>2. CASE q # r
      BY <1>1, <1>2, <1>3, <1>5, <2>1, <2>2, <3>2, Tags DEF TypeOK, Sets
    <3> QED
      BY <3>1, <3>2
  <2> QED
    BY <1>2, <2>1, <2>2 DEF Sets
<1> QED
  BY <1>2, <1>4, <1>6, <1>7, <1>8, <1>9 DEF IInv, TermClosesOwn

LEMMA StepListens == ASSUME IInv, listens PROVE IInv'
<1>1. TypeOK /\ Names /\ Places /\ Late
  BY DEF IInv
<1>2. /\ at[Main] = "listen" /\ at' = [at EXCEPT ![Main] = "test"]
      /\ own' = With(own, <<"listen">>)
      /\ UNCHANGED <<epfd, quit, live, h, d, place, home, mon, reconnected, wrong, set, late, touched>>
  BY DEF listens, Goto, conns, waits, flags
<1>3. /\ own' \in [Fds -> Owners] /\ Injective(own')
      /\ \A g \in Fds : own[g] # Free => own'[g] = own[g]
      /\ \A y \in Owners \ {Free, <<"listen">>} : Absent(own, y) => Absent(own', y)
  <2>1. own \in [Fds -> Owners] /\ Injective(own) /\ Absent(own, <<"listen">>)
    BY <1>1, <1>2 DEF TypeOK, Names
  <2>2. <<"listen">> \in Owners \ {Free}
    BY Tags
  <2> QED
    BY <1>2, <2>1, <2>2, WithNew
<1>4. TypeOK'
  BY <1>1, <1>2, <1>3 DEF TypeOK
<1>5. \A q \in Reactors : at'[q] = IF q = Main THEN "test" ELSE at[q]
  BY <1>1, <1>2 DEF TypeOK
<1>6. Names'
  <2>1. \A q \in Reactors : at'[q] = "epoll" => Absent(own', Epoll(q))
    BY <1>1, <1>3, <1>5, Tags DEF Names
  <2>2. at'[Main] \notin {"epoll", "listen"}
    BY <1>5, Numbers
  <2>3. \A c \in Clients : place'[c] \in {"new", "pending"} => Absent(own', Client(c))
    BY <1>1, <1>2, <1>3, Tags DEF Names
  <2> QED
    BY <1>3, <2>1, <2>2, <2>3 DEF Names
<1>7. Places'
  BY <1>1, <1>2, <1>5, Numbers DEF Places
<1>8. Late'
  BY <1>1, <1>2, <1>5, Numbers DEF Late, TypeOK
<1>9. ASSUME "early" \notin wrong' PROVE Sets'
  <2>1. Sets
    BY <1>2, <1>9 DEF IInv
  <2>2. ASSUME NEW q \in Reactors, at'[q] # "epoll", h' <= 2 * q + 2
        PROVE  own'[epfd'[q]] = Epoll(q)
    <3>1. at[q] # "epoll"
      BY <1>2, <1>5, <2>2
    <3>2. own[epfd[q]] = Epoll(q) /\ epfd[q] \in Fds
      BY <1>1, <1>2, <2>1, <2>2, <3>1 DEF TypeOK, Sets
    <3> QED
      BY <1>2, <1>3, <3>2, Tags
  <2> QED
    BY <1>2, <2>1, <2>2 DEF Sets
<1> QED
  BY <1>2, <1>4, <1>6, <1>7, <1>8, <1>9 DEF IInv, TermClosesOwn

(* A thread moves on, and nothing else happens.                              *)
LEMMA Moves ==
    ASSUME IInv, NEW r \in Reactors,
           NEW to \in {"test", "call", "wait", "ended", "destroy"},
           at[r] \notin {"epoll", "listen", "batch"}, at' = [at EXCEPT ![r] = to],
           to = "destroy" => h = Back, to = "ended" => r # Main,
           to \in {"call", "wait"} => late[r] = 0,
           set' \in [Reactors -> Reactors],
           UNCHANGED <<own, epfd, quit, live, h, d, place, home, mon, reconnected, wrong,
                       late, touched>>
    PROVE  IInv'
<1>1. TypeOK /\ Names /\ Places /\ Late
  BY DEF IInv
<1>2. TypeOK'
  BY <1>1 DEF TypeOK
<1>3. \A q \in Reactors : at'[q] = IF q = r THEN to ELSE at[q]
  BY <1>1 DEF TypeOK
<1>4. Names'
  BY <1>1, <1>3, Numbers DEF Names, Injective, Absent
<1>5. Places'
  BY <1>1, <1>3, Numbers DEF Places
<1>6. Late'
  BY <1>1, <1>3, Numbers DEF Late, TypeOK
<1>7. ASSUME "early" \notin wrong' PROVE Sets'
  BY <1>3, <1>7 DEF IInv, Sets
<1> QED
  BY <1>2, <1>4, <1>5, <1>6, <1>7 DEF IInv, TermClosesOwn

LEMMA StepLoop == ASSUME IInv, NEW r \in Reactors, Test(r) \/ EpollWait(r) PROVE IInv'
<1>1. CASE Test(r)
  <2>1. After(r) \in {"call", "destroy", "ended"} /\ (After(r) = "ended" => r # Main)
    BY DEF After
  <2>2. After(r) = "destroy" => h = Back
    <3>1. After(r) = "destroy" => r = Main /\ quit[Main]
      BY DEF After
    <3> QED
      BY <1>1, <3>1 DEF Test, Goto, Runs, IInv, Places
  <2>3. After(r) = "call" => late[r] = 0
    <3>1. After(r) = "call" => ~quit[r]
      BY DEF After
    <3> QED
      BY <3>1 DEF IInv, Late
  <2>4. /\ at[r] = "test" /\ at' = [at EXCEPT ![r] = After(r)]
        /\ set' \in [Reactors -> Reactors]
        /\ UNCHANGED <<own, epfd, quit, live, h, d, place, home, mon, reconnected, wrong,
                       late, touched>>
    BY <1>1 DEF Test, Goto, conns, waits, flags, IInv, TypeOK
  <2> QED
    BY <2>1, <2>2, <2>3, <2>4, Moves
<1>2. CASE EpollWait(r)
  <2>1. at[r] = "call" /\ late[r] = 0
    BY <1>2 DEF EpollWait, Goto, IInv, Late
  <2>2. set' \in [Reactors -> Reactors]
    <3>1. set' = set \/ \E m \in Reactors : set' = [set EXCEPT ![r] = m]
      BY <1>2 DEF EpollWait, waits
    <3> QED
      BY <3>1 DEF IInv, TypeOK
  <2>3. UNCHANGED <<own, epfd, quit, live, h, d, place, home, mon, reconnected, wrong,
                    late, touched>>
    BY <1>2 DEF EpollWait, conns, waits, flags
  <2>4. \E to \in {"wait", "test"} : at' = [at EXCEPT ![r] = to]
    BY <1>2 DEF EpollWait, Goto
  <2> QED
    BY <2>1, <2>2, <2>3, <2>4, Moves
<1> QED
  BY <1>1, <1>2

(* A connection comes.                                                       *)
LEMMA StepConnect == ASSUME IInv, NEW c \in Clients, Connect(c) PROVE IInv'
<1>1. TypeOK /\ Names /\ Places /\ Late
  BY DEF IInv
<1>2. /\ place[c] = "new" /\ at[Main] = "wait"
      /\ at' = [at EXCEPT ![Main] = "accept"]
      /\ place' = [place EXCEPT ![c] = "pending"]
      /\ late' = [late EXCEPT ![Main] = IF quit[Main] THEN @ + 1 ELSE @]
      /\ UNCHANGED <<own, epfd, quit, live, h, d, home, mon, reconnected, wrong, set, touched>>
  BY DEF Connect, Woken, Goto, flags
<1>3. TypeOK'
  BY <1>1, <1>2, Numbers DEF TypeOK
<1>4. /\ \A q \in Reactors : at'[q] = IF q = Main THEN "accept" ELSE at[q]
      /\ \A b \in Clients : place'[b] = IF b = c THEN "pending" ELSE place[b]
  BY <1>1, <1>2 DEF TypeOK
<1>5. Names'
  BY <1>1, <1>2, <1>4, Numbers DEF Names, Injective, Absent
<1>6. Places'
  BY <1>1, <1>2, <1>4, Numbers DEF Places
<1>7. Late'
  BY <1>1, <1>2, <1>4, Numbers DEF Late, TypeOK
<1>8. ASSUME "early" \notin wrong' PROVE Sets'
  BY <1>2, <1>4, <1>8, Numbers DEF IInv, Sets
<1> QED
  BY <1>2, <1>3, <1>5, <1>6, <1>7, <1>8 DEF IInv, TermClosesOwn

LEMMA StepAccept == ASSUME IInv, NEW c \in Clients, Accept(c) PROVE IInv'
<1>1. TypeOK /\ Names /\ Places /\ Late
  BY DEF IInv
<1>2. PICK r \in 1 .. Subs : home' = [home EXCEPT ![c] = r]
  BY DEF Accept
<1>3. /\ place[c] = "pending" /\ at[Main] = "accept"
      /\ at' = [at EXCEPT ![Main] = "join"]
      /\ own' = With(own, Client(c))
      /\ place' = [place EXCEPT ![c] = "accepted"]
      /\ UNCHANGED <<epfd, quit, live, h, d, mon, reconnected, wrong, set, late, touched>>
  BY DEF Accept, Goto, waits, flags
<1>4. /\ own' \in [Fds -> Owners] /\ Injective(own')
      /\ \A g \in Fds : own[g] # Free => own'[g] = own[g]
      /\ \A y \in Owners \ {Free, Client(c)} : Absent(own, y) => Absent(own', y)
  <2>1. own \in [Fds -> Owners] /\ Injective(own) /\ Absent(own, Client(c))
    BY <1>1, <1>3 DEF TypeOK, Names
  <2>2. Client(c) \in Owners \ {Free}
    BY Tags
  <2> QED
    BY <1>3, <2>1, <2>2, WithNew
<1>5. TypeOK'
  BY <1>1, <1>2, <1>3, <1>4, Numbers DEF TypeOK
<1>6. /\ \A q \in Reactors : at'[q] = IF q = Main THEN "join" ELSE at[q]
      /\ \A b \in Clients : place'[b] = IF b = c THEN "accepted" ELSE place[b]
      /\ \A b \in Clients : home'[b] = IF b = c THEN r ELSE home[b]
  BY <1>1, <1>2, <1>3 DEF TypeOK
<1>7. Names'
  <2>1. \A q \in Reactors : at'[q] = "epoll" => Absent(own', Epoll(q))
    BY <1>1, <1>4, <1>6, Tags DEF Names
  <2>2. at'[Main] = "join"
    BY <1>6, Numbers
  <2>3. \A b \in Clients : place'[b] \in {"new", "pending"} => Absent(own', Client(b))
    BY <1>1, <1>4, <1>6, Tags DEF Names
  <2> QED
    BY <1>4, <2>1, <2>2, <2>3 DEF Names
<1>8. Places'
  BY <1>1, <1>3, <1>6, Numbers DEF Places
<1>9. Late'
  BY <1>1, <1>3, <1>6, Numbers DEF Late, TypeOK
<1>10. ASSUME "early" \notin wrong' PROVE Sets'
  <2>1. Sets
    BY <1>3, <1>10 DEF IInv
  <2>2. ASSUME NEW q \in Reactors, at'[q] # "epoll", h' <= 2 * q + 2
        PROVE  own'[epfd'[q]] = Epoll(q)
    <3>1. at[q] # "epoll"
      BY <1>3, <1>6, <2>2
    <3>2. own[epfd[q]] = Epoll(q) /\ epfd[q] \in Fds
      BY <1>1, <1>3, <2>1, <2>2, <3>1 DEF TypeOK, Sets
    <3> QED
      BY <1>3, <1>4, <3>2, Tags
  <2>3. \A b \in Clients : place'[b] \in {"armed", "event", "job"} =>
                              b # c /\ place[b] \in {"armed", "event", "job"}
    BY <1>6
  <2> QED
    BY <1>3, <1>6, <2>1, <2>2, <2>3 DEF Sets
<1> QED
  BY <1>3, <1>5, <1>7, <1>8, <1>9, <1>10 DEF IInv, TermClosesOwn

LEMMA StepJoin == ASSUME IInv, NEW c \in Clients, Join(c) PROVE IInv'
<1>1. TypeOK /\ Names /\ Places /\ Late
  BY DEF IInv
<1>2. /\ place[c] = "accepted" /\ at[Main] = "join" /\ h \in {0, Back}
      /\ at' = [at EXCEPT ![Main] = "test"]
      /\ wrong' = IF at[home[c]] = "epoll" THEN wrong \cup {"early"} ELSE wrong
      /\ UNCHANGED <<own, epfd, quit, live, h, d, home, reconnected, set, late, touched>>
  BY DEF Join, Goto, Runs, waits
<1>3. \/ /\ place' = [place EXCEPT ![c] = "armed"]
         /\ \E m \in Reactors : own[epfd[home[c]]] = Epoll(m) /\ mon' = [mon EXCEPT ![c] = m]
      \/ place' = [place EXCEPT ![c] = "deaf"] /\ UNCHANGED mon
  BY DEF Join
<1>4. /\ \A q \in Reactors : at'[q] = IF q = Main THEN "test" ELSE at[q]
      /\ \A b \in Clients \ {c} : place'[b] = place[b] /\ mon'[b] = mon[b]
      /\ place'[c] \in {"armed", "deaf"}
  BY <1>1, <1>2, <1>3 DEF TypeOK
<1>5. TypeOK'
  <2>1. wrong' \subseteq {"early", "term", "exit"}
    BY <1>1, <1>2 DEF TypeOK
  <2>2. place' \in [Clients -> {"new", "pending", "accepted", "armed", "event", "job",
                               "deaf", "gone"}]
    BY <1>1, <1>3 DEF TypeOK
  <2>3. mon' \in [Clients -> Reactors]
    BY <1>1, <1>3 DEF TypeOK
  <2> QED
    BY <1>1, <1>2, <2>1, <2>2, <2>3 DEF TypeOK
<1>6. Names'
  BY <1>1, <1>2, <1>4, Numbers DEF Names, Injective, Absent
<1>7. Places'
  BY <1>1, <1>2, <1>4, Numbers DEF Places
<1>8. Late'
  BY <1>1, <1>2, <1>4, Numbers DEF Late, TypeOK
<1>9. ASSUME "early" \notin wrong' PROVE Sets'
  BY <1>2, <1>4, <1>9 DEF IInv, Sets
<1> QED
  BY <1>2, <1>5, <1>6, <1>7, <1>8, <1>9 DEF IInv, TermClosesOwn

(* A connection wakes its reactor.                                           *)
LEMMA StepEvent == ASSUME IInv, NEW c \in Clients, Event(c) PROVE IInv'
<1> DEFINE r == home[c]
<1>1. TypeOK /\ Names /\ Places /\ Late
  BY DEF IInv
<1>2. /\ place[c] = "armed" /\ at[r] = "wait"
      /\ at' = [at EXCEPT ![r] = "batch"]
      /\ late' = [late EXCEPT ![r] = IF quit[r] THEN @ + 1 ELSE @]
      /\ place' = [place EXCEPT ![c] = "event"]
      /\ UNCHANGED <<own, epfd, quit, live, h, d, home, mon, reconnected, wrong, set, touched>>
  BY DEF Event, Heard, Woken, Goto, flags
<1>3. r \in Reactors
  BY <1>1 DEF TypeOK
<1>4. TypeOK'
  BY <1>1, <1>2 DEF TypeOK
<1>5. /\ \A q \in Reactors : at'[q] = IF q = r THEN "batch" ELSE at[q]
      /\ \A b \in Clients : place'[b] = IF b = c THEN "event" ELSE place[b]
  BY <1>1, <1>2 DEF TypeOK
<1>6. Names'
  BY <1>1, <1>2, <1>5, Numbers DEF Names, Injective, Absent
<1>7. Places'
  BY <1>1, <1>2, <1>5, Numbers DEF Places
<1>8. Late'
  BY <1>1, <1>2, <1>3, <1>5 DEF Late, TypeOK
<1>9. ASSUME "early" \notin wrong' PROVE Sets'
  BY <1>2, <1>5, <1>9 DEF IInv, Sets
<1> QED
  BY <1>2, <1>4, <1>6, <1>7, <1>8, <1>9 DEF IInv, TermClosesOwn

(* A reactor meets a descriptor it does not know.                            *)
LEMMA StepStranger == ASSUME IInv, NEW r \in Reactors, Stranger(r) PROVE IInv'
<1>1. TypeOK /\ Names /\ Places /\ Late
  BY DEF IInv
<1>2. /\ touched' = TRUE
      /\ UNCHANGED <<own, epfd, quit, at, live, h, d, place, home, mon, reconnected, wrong,
                     set, late>>
  BY DEF Stranger, conns, waits
<1>3. TypeOK' /\ Places' /\ Late'
  BY <1>1, <1>2 DEF TypeOK, Places, Late
<1>4. Names'
  BY <1>1, <1>2 DEF Names, Injective, Absent
<1> QED
  BY <1>2, <1>3, <1>4 DEF IInv, Sets, TermClosesOwn

LEMMA StepBatch == ASSUME IInv, NEW c \in Clients, Batch(c) PROVE IInv'
<1> DEFINE r == home[c]
<1>1. TypeOK /\ Names /\ Places /\ Late
  BY DEF IInv
<1>2. /\ place[c] = "event" /\ at[r] = "batch"
      /\ at' = [at EXCEPT ![r] = "test"]
      /\ touched' = (home[c] \notin live)
      /\ UNCHANGED <<epfd, quit, live, h, d, home, mon, reconnected, wrong, set, late>>
  BY DEF Batch, Goto, waits
<1>3. /\ place' = [place EXCEPT ![c] = "job"] \/ place' = [place EXCEPT ![c] = "gone"]
      /\ own' = own \/ own' = Without(Client(c))
  BY DEF Batch
<1>4. touched' \in BOOLEAN /\ r \in Reactors
  BY <1>1, <1>2 DEF TypeOK
<1>5. Freed(own', own) /\ \A f \in Fds : own[f] # Client(c) => own'[f] = own[f]
  <2>1. own \in [Fds -> Owners] /\ Client(c) \in Owners
    BY <1>1, Tags DEF TypeOK
  <2>2. CASE own' = own
    BY <2>1, <2>2 DEF Freed
  <2>3. CASE own' = Without(Client(c))
    BY <2>1, <2>3, WithoutFreed
  <2> QED
    BY <1>3, <2>2, <2>3
<1>6. TypeOK'
  BY <1>1, <1>2, <1>3, <1>4, <1>5 DEF TypeOK, Freed
<1>7. /\ \A q \in Reactors : at'[q] = IF q = r THEN "test" ELSE at[q]
      /\ \A b \in Clients : b # c => place'[b] = place[b]
      /\ place'[c] \in {"job", "gone"}
  BY <1>1, <1>2, <1>3 DEF TypeOK
<1>8. Names'
  <2>1. Injective(own') /\ \A y : y # Free /\ Absent(own, y) => Absent(own', y)
    BY <1>1, <1>5, FreedKeeps DEF Names
  <2>2. \A q \in Reactors : at'[q] = "epoll" => Absent(own', Epoll(q))
    BY <1>1, <1>7, <2>1, Tags DEF Names
  <2>3. at'[Main] \in {"epoll", "listen"} => at[Main] \in {"epoll", "listen"}
    BY <1>7, Numbers
  <2>4. at'[Main] \in {"epoll", "listen"} => Absent(own', <<"listen">>)
    BY <1>1, <2>1, <2>3, Tags DEF Names
  <2>5. \A b \in Clients : place'[b] \in {"new", "pending"} => Absent(own', Client(b))
    BY <1>1, <1>7, <2>1, Tags DEF Names
  <2> QED
    BY <2>1, <2>2, <2>4, <2>5 DEF Names
<1>9. Places'
  BY <1>1, <1>2, <1>7, Numbers DEF Places
<1>10. Late'
  BY <1>1, <1>2, <1>4, <1>7 DEF Late, TypeOK
<1>11. ASSUME "early" \notin wrong'
       PROVE  Sets' 
  <2>1. Sets
    BY <1>2, <1>11 DEF IInv
  <2>2. ASSUME NEW q \in Reactors, at'[q] # "epoll", h' <= 2 * q + 2
        PROVE  own'[epfd'[q]] = Epoll(q)
    <3>1. at[q] # "epoll"
      BY <1>2, <1>7, <2>2
    <3>2. own[epfd[q]] = Epoll(q) /\ epfd[q] \in Fds
      BY <1>1, <1>2, <2>1, <2>2, <3>1 DEF TypeOK, Sets
    <3> QED
      BY <1>2, <1>5, <3>2, Tags
  <2> QED
    BY <1>2, <2>2 DEF Sets
<1> QED
  BY <1>2, <1>6, <1>8, <1>9, <1>10, <1>11 DEF IInv, TermClosesOwn
-----------------------------------------------------------------------------
(* The workers.                                                              *)
LEMMA StepTask == ASSUME IInv, NEW c \in Clients, Task(c) PROVE IInv'
<1>1. TypeOK /\ Names /\ Places /\ Late
  BY DEF IInv
<1>2. /\ place[c] = "job" /\ touched' = (home[c] \notin live)
      /\ UNCHANGED <<own, epfd, quit, at, live, h, d, home, mon, reconnected, wrong, set, late>>
  BY DEF Task, waits
<1>3. place' = [place EXCEPT ![c] = "armed"] \/ place' = [place EXCEPT ![c] = "deaf"]
  BY DEF Task
<1>4. touched' \in BOOLEAN
  BY <1>2
<1>5. TypeOK'
  BY <1>1, <1>2, <1>3, <1>4 DEF TypeOK
<1>6. /\ \A b \in Clients : b # c => place'[b] = place[b]
      /\ place'[c] \in {"armed", "deaf"}
  BY <1>1, <1>3 DEF TypeOK
<1>7. Names'
  BY <1>1, <1>2, <1>6 DEF Names, Injective, Absent
<1>8. Places'
  BY <1>1, <1>2 DEF Places
<1>9. Late'
  BY <1>1, <1>2, <1>6 DEF Late
<1>10. ASSUME "early" \notin wrong' PROVE Sets'
  BY <1>2, <1>10 DEF IInv, Sets
<1> QED
  BY <1>2, <1>5, <1>7, <1>8, <1>9, <1>10 DEF IInv, TermClosesOwn

LEMMA StepReconnect == ASSUME IInv, NEW c \in Clients, Reconnect(c) PROVE IInv'
<1> DEFINE o == Without(<<"mysql">>)
<1>1. TypeOK /\ Names /\ Places /\ Late
  BY DEF IInv
<1>2. /\ own' = With(o, <<"mysql">>) /\ reconnected' = TRUE
      /\ UNCHANGED <<epfd, quit, at, live, h, d, place, home, mon, wrong, set, late, touched>>
  BY DEF Reconnect, conns, waits
<1>3. /\ own' \in [Fds -> Owners] /\ Injective(own')
      /\ \A g \in Fds : own[g] \notin {Free, <<"mysql">>} => own'[g] = own[g]
      /\ \A y \in Owners \ {Free, <<"mysql">>} : Absent(own, y) => Absent(own', y)
  <2>1. own \in [Fds -> Owners] /\ Injective(own)
    BY <1>1 DEF TypeOK, Names
  <2>2. <<"mysql">> \in Owners \ {Free}
    BY Tags
  <2>3. /\ Freed(o, own) /\ Absent(o, <<"mysql">>)
        /\ \A f \in Fds : own[f] # <<"mysql">> => o[f] = own[f]
    BY <2>1, <2>2, WithoutFreed
  <2>4. /\ o \in [Fds -> Owners] /\ Injective(o)
        /\ \A y : y # Free /\ Absent(own, y) => Absent(o, y)
    BY <2>1, <2>3, FreedKeeps DEF Freed
  <2> HIDE DEF o
  <2>5. /\ With(o, <<"mysql">>) \in [Fds -> Owners] /\ Injective(With(o, <<"mysql">>))
        /\ \A f \in Fds : o[f] # Free => With(o, <<"mysql">>)[f] = o[f]
        /\ \A y \in Owners \ {Free, <<"mysql">>} :
                Absent(o, y) => Absent(With(o, <<"mysql">>), y)
    BY <2>2, <2>3, <2>4, WithNew
  <2> QED
    BY <1>2, <2>3, <2>4, <2>5
<1>4. TypeOK'
  BY <1>1, <1>2, <1>3 DEF TypeOK
<1>5. Names'
  BY <1>1, <1>2, <1>3, Tags DEF Names
<1>6. Places'
  BY <1>1, <1>2 DEF Places
<1>7. Late'
  BY <1>1, <1>2 DEF Late
<1>8. ASSUME "early" \notin wrong' PROVE Sets'
  <2>1. Sets
    BY <1>2, <1>8 DEF IInv
  <2>2. ASSUME NEW q \in Reactors, at[q] # "epoll", h <= 2 * q + 2
        PROVE  own'[epfd[q]] = Epoll(q)
    <3>1. own[epfd[q]] = Epoll(q) /\ epfd[q] \in Fds
      BY <1>1, <2>1, <2>2 DEF TypeOK, Sets
    <3> QED
      BY <1>3, <3>1, Tags
  <2> QED
    BY <1>2, <2>1, <2>2 DEF Sets
<1> QED
  BY <1>2, <1>4, <1>5, <1>6, <1>7, <1>8 DEF IInv, TermClosesOwn
-----------------------------------------------------------------------------
(* The signal.                                                               *)
LEMMA StepSignal == ASSUME IInv, Signal PROVE IInv'
<1>1. TypeOK /\ Names /\ Places /\ Late
  BY DEF IInv
<1>2. /\ h = 0 /\ h' = 1 /\ h' # Back /\ h # Back /\ 1 \in 0 .. Back
      /\ UNCHANGED <<own, epfd, quit, at, live, d, place, home, mon, reconnected, wrong,
                     set, late, touched>>
  BY Numbers DEF Signal, conns, waits, flags
<1>3. TypeOK'
  BY <1>1, <1>2 DEF TypeOK
<1>4. Names' /\ Late'
  BY <1>1, <1>2 DEF Names, Late, Injective, Absent
<1>5. Places'
  BY <1>1, <1>2 DEF Places
<1>6. ASSUME "early" \notin wrong' PROVE Sets'
  BY <1>2, <1>6, Numbers DEF IInv, Sets
<1> QED
  BY <1>2, <1>3, <1>4, <1>5, <1>6 DEF IInv, TermClosesOwn

(* stop() of one reactor frees at most one descriptor: its own, when it has  *)
(* made its epoll set and nobody has closed that yet.                        *)
LEMMA Closes ==
    ASSUME TypeOK, NEW r \in Reactors, NEW who \in {"term", "exit"}, NEW k \in Nat,
           Stop(k, r, who)
    PROVE  /\ Freed(own', own) /\ quit' \in [Reactors -> BOOLEAN]
           /\ \A q \in Reactors : q # r => quit'[q] = quit[q]
           /\ \A q \in Reactors : quit[q] => quit'[q]
           /\ wrong \subseteq wrong' /\ wrong' \subseteq {"early", "term", "exit"}
           /\ \A x \in wrong' : x \in wrong \/ x = who \/ x = "early"
           /\ k % 2 = 1 => own' = own /\ wrong' = wrong
           /\ \A f \in Fds : f # epfd[r] => own'[f] = own[f]
           /\ \/ wrong' = wrong /\ own[epfd[r]] \in {Free, Epoll(r)}
              \/ k % 2 = 1
              \/ "early" \in wrong' /\ at[r] = "epoll"
              \/ who \in wrong' /\ at[r] # "epoll" /\ own[epfd[r]] \notin {Free, Epoll(r)}
<1>1. CASE k % 2 = 1
  <2>1. quit' = [quit EXCEPT ![r] = TRUE] /\ own' = own /\ wrong' = wrong
    BY <1>1 DEF Stop, StopLoop
  <2> QED
    BY <1>1, <2>1 DEF TypeOK, Freed
<1>2. CASE k % 2 # 1
  <2>1. /\ own' = [own EXCEPT ![epfd[r]] = Free] /\ quit' = quit
        /\ wrong' = IF own[epfd[r]] \in {Free, Epoll(r)} THEN wrong
                    ELSE wrong \cup {IF at[r] = "epoll" THEN "early" ELSE who}
    BY <1>2 DEF Stop, EPollstop
  <2>2. Freed(own', own) /\ \A f \in Fds : f # epfd[r] => own'[f] = own[f]
    BY <2>1, Tags DEF TypeOK, Freed
  <2>3. quit' \in [Reactors -> BOOLEAN] /\ wrong \subseteq {"early", "term", "exit"}
    BY <2>1 DEF TypeOK
  <2>4. CASE own[epfd[r]] \in {Free, Epoll(r)}
    BY <1>2, <2>1, <2>2, <2>3, <2>4
  <2>5. CASE own[epfd[r]] \notin {Free, Epoll(r)} /\ at[r] = "epoll"
    <3>1. wrong' = wrong \cup {"early"}
      BY <2>1, <2>5
    <3> QED
      BY <1>2, <2>1, <2>2, <2>3, <2>5, <3>1
  <2>6. CASE own[epfd[r]] \notin {Free, Epoll(r)} /\ at[r] # "epoll"
    <3>1. wrong' = wrong \cup {who}
      BY <2>1, <2>6
    <3> QED
      BY <1>2, <2>1, <2>2, <2>3, <2>6, <3>1
  <2> QED
    BY <2>4, <2>5, <2>6
<1> QED
  BY <1>1, <1>2

LEMMA StepTerm == ASSUME IInv, Term PROVE IInv'
<1> DEFINE r == Stopped(h)
<1>1. TypeOK /\ Names /\ Places /\ Late
  BY DEF IInv
<1>2. /\ h \in 1 .. Stops /\ h' = h + 1 /\ Stop(h, r, "term")
      /\ UNCHANGED <<epfd, at, live, d, place, home, mon, reconnected, set, late, touched>>
  BY DEF Term, conns, waits
<1>3. r \in Reactors /\ (h % 2 # 1 => h = 2 * r + 2)
  <2>1. h \in Nat \ {0} /\ h <= 2 * Subs + 2
    BY <1>2, Numbers
  <2>2. r \in 0 .. Subs /\ (h % 2 # 1 => h = 2 * r + 2)
    BY <2>1, Numbers DEF Stopped
  <2> QED
    BY <2>2 DEF Reactors
<1> HIDE DEF r
<1>4. h \in Nat /\ h # Back /\ h' # Back /\ h' # 0 /\ h' \in 0 .. Back
  BY <1>2, Numbers
<1>5. /\ Freed(own', own) /\ quit' \in [Reactors -> BOOLEAN]
      /\ \A q \in Reactors : quit[q] => quit'[q]
      /\ wrong \subseteq wrong' /\ wrong' \subseteq {"early", "term", "exit"}
      /\ \A x \in wrong' : x \in wrong \/ x = "term" \/ x = "early"
      /\ h % 2 = 1 => own' = own /\ wrong' = wrong
      /\ \A f \in Fds : f # epfd[r] => own'[f] = own[f]
      /\ \/ wrong' = wrong /\ own[epfd[r]] \in {Free, Epoll(r)}
         \/ h % 2 = 1
         \/ "early" \in wrong' /\ at[r] = "epoll"
         \/ "term" \in wrong' /\ at[r] # "epoll" /\ own[epfd[r]] \notin {Free, Epoll(r)}
  BY <1>1, <1>2, <1>3, <1>4, Closes
<1>6. TypeOK'
  BY <1>1, <1>2, <1>4, <1>5 DEF TypeOK, Freed
<1>7. Names'
  <2>1. Injective(own') /\ \A y : y # Free /\ Absent(own, y) => Absent(own', y)
    BY <1>1, <1>5, FreedKeeps DEF Names
  <2> QED
    BY <1>1, <1>2, <2>1, Tags DEF Names
<1>8. Places' /\ Late'
  BY <1>1, <1>2, <1>4, <1>5 DEF Places, Late
<1>9. ASSUME "early" \notin wrong' PROVE Sets' /\ wrong' = wrong
  <2>1. Sets
    BY <1>5, <1>9 DEF IInv
  <2>2. wrong' = wrong /\ (h % 2 # 1 => own[epfd[r]] \in {Free, Epoll(r)})
    <3>1. h % 2 # 1 /\ at[r] # "epoll" => own[epfd[r]] = Epoll(r)
      BY <1>3, <1>4, <2>1 DEF Sets
    <3> QED
      BY <1>5, <1>9, <3>1
  <2>3. ASSUME NEW q \in Reactors, at[q] # "epoll", h + 1 <= 2 * q + 2
        PROVE  own'[epfd[q]] = Epoll(q)
    <3>1. own[epfd[q]] = Epoll(q) /\ epfd[q] \in Fds
      BY <1>1, <1>4, <2>1, <2>3, Numbers DEF TypeOK, Sets
    <3>2. CASE h % 2 = 1
      BY <1>5, <3>1, <3>2
    <3>3. CASE h % 2 # 1
      <4>1. q # r
        BY <1>3, <2>3, <3>3, Numbers
      <4>2. epfd[q] # epfd[r]
        BY <1>3, <2>2, <3>1, <3>3, <4>1, Tags
      <4> QED
        BY <1>5, <3>1, <4>2
    <3> QED
      BY <3>2, <3>3
  <2> QED
    BY <1>2, <1>4, <2>1, <2>2, <2>3 DEF Sets
<1>10. TermClosesOwn'
  BY <1>2, <1>5, <1>9 DEF IInv, TermClosesOwn
<1> QED
  BY <1>6, <1>7, <1>8, <1>9, <1>10 DEF IInv

(* The log lets go, and the sleep is over.                                   *)
LEMMA StepLogStop == ASSUME IInv, LogStop PROVE IInv'
<1>1. TypeOK /\ Names /\ Places /\ Late
  BY DEF IInv
<1>2. /\ h = Logging /\ h' = Sleeping /\ h # Back /\ h' # Back /\ h' \in 0 .. Back /\ h' # 0
      /\ UNCHANGED <<own, epfd, quit, at, live, d, place, home, mon, reconnected, wrong,
                     set, late, touched>>
  BY Numbers DEF LogStop, conns, waits, flags
<1>3. TypeOK' /\ Places' /\ Late'
  BY <1>1, <1>2 DEF TypeOK, Places, Late
<1>4. Names'
  BY <1>1, <1>2 DEF Names, Injective, Absent
<1>5. ASSUME "early" \notin wrong' PROVE Sets'
  BY <1>2, <1>5, Numbers DEF IInv, Sets
<1> QED
  BY <1>2, <1>3, <1>4, <1>5 DEF IInv, TermClosesOwn

LEMMA StepWake == ASSUME IInv, Wake PROVE IInv'
<1>1. TypeOK /\ Names /\ Places /\ Late
  BY DEF IInv
<1>2. /\ h = Sleeping /\ h' = Back /\ h # Back /\ Back \in 0 .. Back /\ Back # 0
      /\ at' = [at EXCEPT ![Main] = IF @ = "wait" THEN "test" ELSE @]
      /\ UNCHANGED <<own, epfd, quit, live, d, place, home, mon, reconnected, wrong,
                     set, late, touched>>
  BY Numbers DEF Wake, conns, waits, flags
<1>3. TypeOK'
  BY <1>1, <1>2 DEF TypeOK
<1>4. \A q \in Reactors : at'[q] = at[q] \/ (at[q] = "wait" /\ at'[q] = "test")
  BY <1>1, <1>2 DEF TypeOK
<1>5. Names'
  BY <1>1, <1>2, <1>4, Numbers DEF Names, Injective, Absent
<1>6. Places'
  BY <1>1, <1>2, <1>4, Numbers DEF Places
<1>7. Late'
  BY <1>1, <1>2, <1>4 DEF Late
<1>8. ASSUME "early" \notin wrong' PROVE Sets'
  BY <1>2, <1>4, <1>8, Numbers DEF IInv, Sets
<1> QED
  BY <1>2, <1>3, <1>5, <1>6, <1>7, <1>8 DEF IInv, TermClosesOwn
-----------------------------------------------------------------------------
(* The destructors, which run when term() is over.                           *)
LEMMA StepExit ==
    ASSUME IInv, h = Back,
           NEW to \in {"stop", "delete", "ended"}, at[Main] \notin {"epoll", "listen", "batch"},
           at' = [at EXCEPT ![Main] = to],
           Freed(own', own), quit' \in [Reactors -> BOOLEAN],
           \A q \in Reactors : quit[q] => quit'[q],
           wrong' \subseteq {"early", "term", "exit"}, wrong \subseteq wrong',
           "term" \in wrong' => "term" \in wrong,
           live' \subseteq live, d' \in 0 .. Stops,
           to = "stop" => d' \in 1 .. 2 * Subs, to = "delete" => d' \in 1 .. Subs,
           place' \in [Clients -> {"new", "pending", "accepted", "armed", "event", "job",
                                   "deaf", "gone"}],
           \A c \in Clients : place'[c] = place[c]
                              \/ (place'[c] = "gone" /\ place[c] \in {"armed", "deaf"}),
           UNCHANGED <<epfd, h, home, mon, reconnected, set, late, touched>>
    PROVE  IInv'
<1>1. TypeOK /\ Names /\ Places /\ Late
  BY DEF IInv
<1>2. TypeOK'
  <2>1. at' \in [Reactors -> {"epoll", "listen", "test", "call", "wait", "accept",
                             "join", "batch", "destroy", "stop", "delete", "ended"}]
    BY <1>1 DEF TypeOK
  <2>2. own' \in [Fds -> Owners] /\ live' \subseteq Reactors
    BY <1>1 DEF TypeOK, Freed
  <2> QED
    BY <1>1, <2>1, <2>2 DEF TypeOK
<1>3. \A q \in Reactors : at'[q] = IF q = Main THEN to ELSE at[q]
  BY <1>1 DEF TypeOK
<1>4. Names'
  <2>1. Injective(own') /\ \A y : y # Free /\ Absent(own, y) => Absent(own', y)
    BY <1>1, FreedKeeps DEF Names
  <2>2. \A q \in Reactors : at'[q] = "epoll" => Absent(own', Epoll(q))
    BY <1>1, <1>3, <2>1, Tags DEF Names
  <2>3. at'[Main] \notin {"epoll", "listen"}
    BY <1>3, Numbers
  <2>4. \A c \in Clients : place'[c] \in {"new", "pending"} => Absent(own', Client(c))
    BY <1>1, <2>1, Tags DEF Names
  <2> QED
    BY <2>1, <2>2, <2>3, <2>4 DEF Names
<1>5. Places'
  BY <1>1, <1>3, Numbers DEF Places
<1>6. Late'
  BY <1>1, <1>3 DEF Late
<1>7. ASSUME "early" \notin wrong' PROVE Sets'
  <2>1. Sets
    BY <1>7 DEF IInv
  <2> QED
    BY <2>1, Numbers DEF Sets
<1> QED
  BY <1>2, <1>4, <1>5, <1>6, <1>7 DEF IInv, TermClosesOwn

LEMMA StepDestructors == ASSUME IInv, Destroy \/ StopAgain \/ Delete PROVE IInv'
<1>1. TypeOK /\ Names /\ Places /\ Late
  BY DEF IInv
<1>2. h = Back
  BY <1>1 DEF Places, Destroy, StopAgain, Delete, Goto
<1>3. own \in [Fds -> Owners] /\ quit \in [Reactors -> BOOLEAN]
      /\ wrong \subseteq {"early", "term", "exit"}
      /\ place \in [Clients -> {"new", "pending", "accepted", "armed", "event", "job",
                               "deaf", "gone"}]
  BY <1>1 DEF TypeOK
<1>4. CASE Destroy
  <2>1. /\ at[Main] = "destroy" /\ at' = [at EXCEPT ![Main] = "stop"]
        /\ own' = Without(<<"listen">>) /\ d' = 1
        /\ UNCHANGED <<epfd, quit, live, h, place, home, mon, reconnected, wrong, set, late, touched>>
    BY <1>4 DEF Destroy, Goto, conns, waits, flags
  <2>2. Freed(own', own)
    BY <1>3, <2>1, Tags, WithoutFreed
  <2>3. 1 \in 0 .. Stops /\ 1 \in 1 .. 2 * Subs
    BY Numbers
  <2> QED
    BY <1>2, <1>3, <2>1, <2>2, <2>3, StepExit
<1>5. CASE StopAgain
  <2> DEFINE to == IF d = 2 * Subs THEN "delete" ELSE "stop"
             r == (d + 1) \div 2
  <2>1. /\ at[Main] = "stop" /\ at' = [at EXCEPT ![Main] = to]
        /\ Stop(d, r, "exit")
        /\ d' = IF d = 2 * Subs THEN Subs ELSE d + 1
        /\ UNCHANGED <<epfd, live, h, place, home, mon, reconnected, set, late, touched>>
    BY <1>5 DEF StopAgain, Goto, conns, waits
  <2>2. d \in 1 .. 2 * Subs
    BY <1>1, <2>1 DEF Places
  <2>3. r \in Reactors /\ d \in Nat
    BY <2>2, Numbers DEF Reactors
  <2>4. /\ d' \in 0 .. Stops /\ (to = "stop" => d' \in 1 .. 2 * Subs)
        /\ (to = "delete" => d' \in 1 .. Subs) /\ to \in {"stop", "delete"}
    BY <2>1, <2>2, Numbers
  <2> HIDE DEF to, r
  <2>5. /\ Freed(own', own) /\ quit' \in [Reactors -> BOOLEAN]
        /\ \A q \in Reactors : quit[q] => quit'[q]
        /\ wrong \subseteq wrong' /\ wrong' \subseteq {"early", "term", "exit"}
        /\ "term" \in wrong' => "term" \in wrong
    BY <1>1, <2>1, <2>3, Closes
  <2> QED
    BY <1>2, <1>3, <2>1, <2>4, <2>5, StepExit
<1>6. CASE Delete
  <2> DEFINE to == IF d = 1 THEN "ended" ELSE "delete"
  <2>1. /\ at[Main] = "delete" /\ at' = [at EXCEPT ![Main] = to]
        /\ live' = live \ {d} /\ d' = d - 1
        /\ own' = [f \in Fds |-> IF \E c \in Clients : Held(c) /\ own[f] = Client(c)
                                 THEN Free ELSE own[f]]
        /\ place' = [c \in Clients |-> IF Gone(c) THEN "gone" ELSE place[c]]
        /\ UNCHANGED <<epfd, quit, h, home, mon, reconnected, wrong, set, late, touched>>
    BY <1>6 DEF Delete, Goto, waits, flags
  <2>2. d \in 1 .. Subs
    BY <1>1, <2>1 DEF Places
  <2>3. /\ d' \in 0 .. Stops /\ (to = "delete" => d' \in 1 .. Subs) /\ to \in {"ended", "delete"}
    BY <2>1, <2>2, Numbers
  <2>4. Freed(own', own)
    BY <1>3, <2>1, Tags DEF Freed
  <2>5. \A c \in Clients : place'[c] = place[c]
                           \/ (place'[c] = "gone" /\ place[c] \in {"armed", "deaf"})
    BY <2>1 DEF Gone, Held
  <2>6. place' \in [Clients -> {"new", "pending", "accepted", "armed", "event", "job",
                                "deaf", "gone"}]
    BY <1>3, <2>1
  <2> HIDE DEF to
  <2> QED
    BY <1>2, <1>3, <2>1, <2>3, <2>4, <2>5, <2>6, StepExit
<1> QED
  BY <1>4, <1>5, <1>6
-----------------------------------------------------------------------------
LEMMA LifecycleNext == IInv /\ [Next]_vars => IInv'
<1> SUFFICES ASSUME IInv, [Next]_vars PROVE IInv'
  OBVIOUS
<1>1. CASE UNCHANGED vars
  <2>1. TypeOK' /\ Places'
    BY <1>1 DEF vars, conns, waits, flags, IInv, TypeOK, Places
  <2>2. Names' /\ Late'
    BY <1>1 DEF vars, conns, waits, IInv, Names, Injective, Absent, Late
  <2> QED
    BY <1>1, <2>1, <2>2
       DEF vars, conns, waits, flags, IInv, Sets, TermClosesOwn
<1>2. ASSUME NEW r \in Reactors, Loop(r) \/ Stranger(r) PROVE IInv'
  BY <1>2, StepEPollstart, StepLoop, StepStranger DEF Loop
<1>3. CASE MainStep
  BY <1>2, <1>3, Numbers, StepListens, StepAccept, StepJoin, StepTerm, StepLogStop,
     StepWake, StepDestructors DEF MainStep
<1>4. ASSUME NEW c \in Clients, Connect(c) \/ Event(c) \/ Batch(c) \/ Worker(c) PROVE IInv'
  BY <1>4, StepConnect, StepEvent, StepBatch, StepTask, StepReconnect DEF Worker
<1> QED
  BY <1>1, <1>2, <1>3, <1>4, StepSignal, Numbers DEF Next

(* Type correctness: above all, whoever opens a descriptor gets one.         *)
THEOREM LifecycleTypeOK == Spec => []TypeOK
<1>1. IInv => TypeOK
  BY DEF IInv
<1> QED
  BY <1>1, LifecycleInit, LifecycleNext, PTL DEF Spec

(* A reactor gets at most one batch of events after its quit was set.        *)
THEOREM LifecycleAtMostOneLateBatch == Spec => []AtMostOneLateBatch
<1>1. IInv => AtMostOneLateBatch
  BY DEF IInv, Late, AtMostOneLateBatch
<1> QED
  BY <1>1, LifecycleInit, LifecycleNext, PTL DEF Spec

(* term() closes nobody's descriptor but those of the epoll sets.            *)
THEOREM LifecycleTermClosesOwn == Spec => []TermClosesOwn
<1>1. IInv => TermClosesOwn
  BY DEF IInv
<1> QED
  BY <1>1, LifecycleInit, LifecycleNext, PTL DEF Spec
=============================================================================
