-------------------------- MODULE HttpServerProofs --------------------------
(***************************************************************************)
(* Proofs about HttpServer, for any clients, questions, replies and        *)
(* numbers of calls and failures.                                          *)
(***************************************************************************)
EXTENDS HttpServer, Induction

\* The head of a queue that is not empty is one of its clients.
LEMMA HeadTail ==
    ASSUME NEW S, NEW s \in Seq(S), s # << >>
    PROVE  Head(s) \in S /\ Tail(s) \in Seq(S)
OBVIOUS

\* Cutting clients off leaves each of them in one of its states.
LEMMA CutType ==
    ASSUME NEW cs, NEW T, "cut" \in T, client \in [Clients -> T]
    PROVE  Cut(cs) \in [Clients -> T]
BY DEF Cut

\* The initial states are typed.
LEMMA TypeInit == Init => TypeOK
BY DEF Init, TypeOK, Objects, Serving

\* main() and the caller of stop_server keep the types.
LEMMA TypeCallers == TypeOK /\ (Start \/ StopServer) => TypeOK'
<1> SUFFICES ASSUME TypeOK, Start \/ StopServer PROVE TypeOK'
  OBVIOUS
<1>1. ThisOf("start") \in Objects /\ ThisOf("stop") \in Objects
  BY DEF ThisOf, Objects
<1>2. \A cs : Cut(cs) \in [Clients -> {"away", "connected", "asked", "answered",
                                       "cut", "gone"}]
  BY CutType DEF TypeOK
<1>3. ASSUME NEW f, StartServer(f) PROVE TypeOK'
  BY <1>1, <1>3 DEF StartServer, TypeOK, Objects, object, kernel, caller, locals, ends
<1>4. ASSUME NEW b \in BOOLEAN, CreateThread(b) PROVE TypeOK'
  BY <1>4 DEF CreateThread, TypeOK, object, kernel, caller, locals, ends, Serving
<1>5. CASE StopInstance
  BY <1>1, <1>5 DEF StopInstance, TypeOK, Objects, object, kernel, caller, locals, ends
<1>6. CASE StopExit
  BY <1>1, <1>6 DEF StopExit, TypeOK, object, kernel, caller, locals, ends
<1>7. CASE StopShutdown
  BY <1>2, <1>7 DEF StopShutdown, TypeOK, object, kernel, caller, locals, ends
<1>8. CASE StopClose
  <2>1. << >> \in Seq(Clients)  OBVIOUS
  <2> QED BY <1>2, <1>8, <2>1 DEF StopClose, TypeOK, object, kernel, caller, locals, ends
<1> QED
  BY <1>3, <1>4, <1>5, <1>6, <1>7, <1>8 DEF Start, StopServer

\* The thread keeps the types.
LEMMA TypeThread == TypeOK /\ Thread => TypeOK'
<1> SUFFICES ASSUME TypeOK, Thread PROVE TypeOK'
  OBVIOUS
<1> USE DEF object, kernel, caller, locals, ends, Serving
<1>1. CASE Loop
  <2>1. ThisOf("start") \in Objects  BY DEF ThisOf, Objects
  <2> QED BY <1>1, <2>1 DEF Loop, TypeOK
<1>2. CASE Accept
  <2>1. Head(backlog) \in Clients /\ Tail(backlog) \in Seq(Clients)
    BY <1>2, HeadTail DEF Accept, TypeOK
  <2> QED BY <1>2, <2>1 DEF Accept, TypeOK
<1>3. CASE AcceptFails  BY <1>3 DEF AcceptFails, TypeOK
<1>4. CASE Recv \/ RecvOther  BY <1>4 DEF Recv, RecvOther, Arrived, TypeOK
<1>5. CASE RecvNothing  BY <1>5 DEF RecvNothing, TypeOK
<1>6. CASE SearchWords  BY <1>6 DEF SearchWords, TypeOK
<1>7. CASE Send  BY <1>7 DEF Send, TypeOK
<1>8. CASE SendKills \/ RecvKills
  <2>1. << >> \in Seq(Clients)  OBVIOUS
  <2>2. Die  BY <1>8 DEF SendKills, RecvKills
  <2>3. client' \in [Clients -> {"away", "connected", "asked", "answered",
                                 "cut", "gone"}]
    BY <2>2, CutType DEF Die, TypeOK
  <2>4. current \in Clients \cup {NULL}  BY DEF TypeOK
  <2> QED BY <2>1, <2>2, <2>3, <2>4 DEF Die, TypeOK
<1>9. CASE Close  BY <1>9 DEF Close, TypeOK
<1> QED
  BY <1>1, <1>2, <1>3, <1>4, <1>5, <1>6, <1>7, <1>8, <1>9 DEF Thread

\* Clients keep the types.
LEMMA TypeClients ==
    ASSUME TypeOK, NEW c \in Clients, Connect(c) \/ Asks(c) \/ HangUp(c)
    PROVE  TypeOK'
<1> USE DEF object, kernel, caller, locals, ends, Serving
<1>1. CASE Connect(c)
  <2>1. Append(backlog, c) \in Seq(Clients)  BY DEF TypeOK
  <2> QED BY <1>1, <2>1 DEF Connect, TypeOK
<1>2. CASE Asks(c)  BY <1>2 DEF Asks, Ask, TypeOK
<1>3. CASE HangUp(c)  BY <1>3 DEF HangUp, TypeOK
<1> QED BY <1>1, <1>2, <1>3

\* Every step keeps the types.
LEMMA TypeStep == TypeOK /\ [Next]_vars => TypeOK'
<1>1. ASSUME TypeOK, UNCHANGED vars PROVE TypeOK'
  BY <1>1 DEF vars, object, kernel, caller, locals, ends, TypeOK
<1> QED BY <1>1, TypeCallers, TypeThread, TypeClients DEF Next

\* The server, its thread and its clients are always in one of their states:
\* above all, whoever is served is a client that was accepted.
THEOREM TypeCorrect == Spec => []TypeOK
<1> QED BY TypeInit, TypeStep, PTL DEF Spec

-----------------------------------------------------------------------------
(* What stop_server reaches.                                               *)

\* The singleton is never written to; a stop_server under way, which main()
\* has started the server before, holds a copy of it, whose descriptor is 0.
StopInv ==
    /\ m_listen_socket["static"] = "zero"
    /\ stop # "none" =>
          /\ m_listen_socket[ThisOf("stop")] = "zero"
          /\ main \notin {"start", "create"}
          /\ stops > 0
    /\ stops \in Nat

\* Only the callers write what StopInv speaks of.
LEMMA StopInvStep == TypeOK /\ StopInv /\ [Next]_vars => StopInv'
<1> SUFFICES ASSUME TypeOK, StopInv, [Next]_vars PROVE StopInv'
  OBVIOUS
<1> USE DEF object, kernel, caller, locals, ends, StopInv
<1>1. ASSUME NEW f, StartServer(f) PROVE StopInv'
  BY <1>1 DEF StartServer, ThisOf, TypeOK, Objects
<1>2. ASSUME NEW b \in BOOLEAN, CreateThread(b) PROVE StopInv'
  BY <1>2 DEF CreateThread, ThisOf
<1>3. CASE StopInstance
  BY <1>3 DEF StopInstance, ThisOf, TypeOK, Objects
<1>4. CASE StopExit
  BY <1>4 DEF StopExit, ThisOf, TypeOK, Objects
<1>5. CASE StopShutdown
  BY <1>5 DEF StopShutdown, ThisOf
<1>6. CASE StopClose
  BY <1>6 DEF StopClose, ThisOf
<1>7. CASE Thread
  <2>1. UNCHANGED <<object, caller>> /\ main' \in {main, "dead"}
    BY <1>7
       DEF Thread, Loop, Accept, AcceptFails, Recv, RecvOther, RecvKills,
           RecvNothing, SearchWords, Send, SendKills, Die, Close
  <2> QED BY <2>1 DEF ThisOf
<1>8. ASSUME NEW c \in Clients, Connect(c) \/ Asks(c) \/ HangUp(c)
      PROVE  StopInv'
  BY <1>8 DEF Connect, Asks, Ask, HangUp, ThisOf
<1>9. CASE UNCHANGED vars
  BY <1>9 DEF vars, ThisOf
<1> QED
  BY <1>1, <1>2, <1>3, <1>4, <1>5, <1>6, <1>7, <1>8, <1>9
     DEF Next, Start, StopServer

-----------------------------------------------------------------------------
(* Who is cut off.                                                         *)

SomeoneCuts == \E c \in Clients : client[c] = "gone" \/ request[c] = NoSearch

\* Descriptor 0 is free, or a client's, only after one whole stop_server; a
\* client that has hung up stays so, and who has sent a request sends no other.
CutInv ==
    /\ DOMAIN request = Clients
    /\ \A c \in Clients : client[c] \in {"away", "connected"} => request[c] = NULL
    /\ zero # "stdin" => stops > (IF stop = "none" THEN 0 ELSE 1)
    /\ CutOnlyByOthers

\* A step of stop_server cuts the client off that has descriptor 0.
LEMMA CutInvStop ==
    TypeOK /\ StopInv /\ CutInv /\ (Start \/ StopServer) => CutInv'
<1> SUFFICES ASSUME TypeOK, StopInv, CutInv, Start \/ StopServer PROVE CutInv'
  OBVIOUS
<1> USE DEF object, kernel, caller, locals, ends, CutInv, CutOnlyByOthers
<1>1. ASSUME NEW f, StartServer(f) PROVE CutInv'
  BY <1>1 DEF StartServer
<1>2. ASSUME NEW b \in BOOLEAN, CreateThread(b) PROVE CutInv'
  BY <1>2 DEF CreateThread
<1>3. CASE StopInstance
  BY <1>3 DEF StopInstance, StopInv
<1>4. CASE StopExit
  BY <1>4 DEF StopExit
<1>5. \A c \in Clients :
         /\ client[c] = "gone" => Cut(Reached("zero"))[c] = "gone"
         /\ Cut(Reached("zero"))[c] \in {client[c], "cut"}
  BY DEF Cut
<1>6. zero # "client" => Cut(Reached("zero")) = client
  BY DEF Cut, Reached, TypeOK
<1>7. CASE StopShutdown
  <2>1. client' = Cut(Reached("zero"))  BY <1>7 DEF StopShutdown, StopInv
  <2> QED BY <1>5, <1>6, <1>7, <2>1 DEF StopShutdown
<1>8. CASE StopClose
  <2>1. client' = Cut(Reached("zero"))  BY <1>8 DEF StopClose, StopInv
  <2> QED BY <1>5, <1>6, <1>8, <2>1 DEF StopClose, StopInv
<1> QED
  BY <1>1, <1>2, <1>3, <1>4, <1>7, <1>8 DEF Start, StopServer

\* A step of the thread or of a client cuts nobody off, or ends the process
\* because of a client that has hung up or was cut off before.
LEMMA CutInvOthers ==
    ASSUME TypeOK, StopInv, CutInv,
           Thread \/ \E c \in Clients : Connect(c) \/ Asks(c) \/ HangUp(c)
    PROVE  CutInv'
<1> USE DEF object, kernel, caller, locals, ends, CutInv, CutOnlyByOthers
<1>1. CASE Loop \/ AcceptFails \/ SearchWords \/ Send
           \/ Recv \/ RecvOther \/ RecvNothing
  BY <1>1
     DEF Loop, AcceptFails, Recv, RecvOther, RecvNothing, SearchWords, Send
<1>2. CASE Accept
  BY <1>2 DEF Accept, TypeOK
<1>3. CASE SendKills \/ RecvKills
  <2>1. current \in Clients
    BY <1>3 DEF SendKills, RecvKills, Arrived, TypeOK, Serving
  <2>2. SomeoneCuts \/ stops > 1
    BY <1>3, <2>1 DEF SendKills, RecvKills, Broken, SomeoneCuts
  <2>3. Die  BY <1>3 DEF SendKills, RecvKills
  <2>4. /\ \A c \in Clients : client[c] = "gone" => client'[c] = "gone"
        /\ \A c \in Clients : client'[c] \in {client[c], "cut"}
        /\ UNCHANGED <<request, stops, stop, zero>>
    BY <2>3 DEF Die, Cut
  <2> QED BY <2>2, <2>4 DEF SomeoneCuts
<1>4. CASE Close
  <2>1. current \in Clients  BY <1>4 DEF Close, TypeOK, Serving
  <2> QED BY <1>4, <2>1 DEF Close, TypeOK
<1>5. ASSUME NEW c \in Clients, Connect(c) \/ HangUp(c) PROVE CutInv'
  BY <1>5 DEF Connect, HangUp, TypeOK
<1>6. ASSUME NEW c \in Clients, NEW q, NEW r, Ask(c, q, r) PROVE CutInv'
  <2>1. request[c] = NULL /\ NULL # NoSearch  BY <1>6, HttpAssumption DEF Ask
  <2>2. /\ request' = [request EXCEPT ![c] = r]
        /\ client' = [client EXCEPT ![c] = "asked"] /\ client[c] = "connected"
        /\ DOMAIN client = Clients
        /\ UNCHANGED <<stops, stop, zero>>
    BY <1>6 DEF Ask, TypeOK
  <2> QED BY <2>1, <2>2
<1> QED
  BY <1>1, <1>2, <1>3, <1>4, <1>5, <1>6 DEF Thread, Asks

\* A client that is cut off owes it to one that hung up or sent what is no
\* search, or to two calls of stop_server, in every behaviour.
THEOREM CutByOthers == Spec => []CutOnlyByOthers
<1>1. Init => StopInv /\ CutInv
  BY DEF Init, StopInv, CutInv, CutOnlyByOthers, Objects, ThisOf
<1>2. TypeOK /\ StopInv /\ CutInv /\ [Next]_vars => CutInv'
  <2>1. ASSUME CutInv, UNCHANGED vars PROVE CutInv'
    BY <2>1 DEF vars, object, kernel, caller, locals, ends, CutInv, CutOnlyByOthers
  <2> QED BY <2>1, CutInvStop, CutInvOthers DEF Next
<1>3. CutInv => CutOnlyByOthers  BY DEF CutInv
<1> QED BY <1>1, <1>2, <1>3, TypeCorrect, StopInvStep, PTL DEF Spec

-----------------------------------------------------------------------------
(* Encoding and decoding.                                                  *)

Byte == 0 .. 255

\* Bytes are numbers.
LEMMA ByteInt == \A b \in Byte : b \in Int
BY DEF Byte

\* F[i] is the first i sequences of e joined.
Joined(F, e, n) ==
    /\ FlattenSeq(e) = F[n]
    /\ F[1] = e[1]
    /\ \A i \in 2 .. n : F[i] = F[i - 1] \o e[i]

\* FlattenSeq joins one sequence after the other.
LEMMA FlattenSteps ==
    ASSUME NEW U, NEW n \in Nat \ {0}, NEW e \in [1 .. n -> Seq(U)]
    PROVE  \E F \in [1 .. n -> Seq(U)] : Joined(F, e, n)
<1> DEFINE S == 1 .. n
           T == Seq(U)
           halt == {1}
           m == [i \in S |-> i]
           pred == [i \in S |-> i - 1]
           step == [it \in S \X T |-> it[2] \o e[it[1]]]
           Body(f, i) == IF i = 1 THEN e[i] ELSE f[i - 1] \o e[i]
<1>0. e \in Seq(T) /\ Len(e) = n  BY FunctionSeq
<1>1. \E f \in [S -> T] :
        f = [i \in S |-> IF i \in halt THEN e[i] ELSE step[<<i, f[pred[i]]>>]]
  <2>1. m \in [S -> Nat]  OBVIOUS
  <2>2. \A i \in S \ halt : pred[i] \in S /\ m[pred[i]] < m[i]  OBVIOUS
  <2>3. \A i \in S \cap halt : e[i] \in T  OBVIOUS
  <2>4. \A i \in S \ halt, t \in T : step[<<i, t>>] \in T
    <3> SUFFICES ASSUME NEW i \in S \ halt, NEW t \in T PROVE step[<<i, t>>] \in T
      OBVIOUS
    <3>1. step[<<i, t>>] = t \o e[i]  OBVIOUS
    <3>2. e[i] \in T  OBVIOUS
    <3> QED BY <3>1, <3>2
  <2>5. Recursive(S, T, m, halt, pred, e, step)
    <3> HIDE DEF m, pred, step, halt, T, S
    <3> QED BY <2>1, <2>2, <2>3, <2>4 DEF Recursive
  <2> HIDE DEF m, pred, step, halt, T, S
  <2> QED BY SMTT(20), <2>5, Recursion
<1>2. PICK f \in [S -> T] :
        f = [i \in S |-> IF i \in halt THEN e[i] ELSE step[<<i, f[pred[i]]>>]]
  BY <1>1
<1>3. \A i \in S \ halt : step[<<i, f[pred[i]]>>] = f[i - 1] \o e[i]
  <2> SUFFICES ASSUME NEW i \in S \ halt PROVE step[<<i, f[pred[i]]>>] = f[i - 1] \o e[i]
    OBVIOUS
  <2>1. pred[i] = i - 1 /\ i - 1 \in S /\ i \in S  OBVIOUS
  <2>2. f[i - 1] \in T  BY <2>1
  <2> HIDE DEF pred, S, T
  <2> QED BY <2>1, <2>2
<1>4. f = [i \in S |-> Body(f, i)]
  <2> HIDE DEF step, pred
  <2> QED BY <1>2, <1>3
<1> DEFINE F == CHOOSE g : g = [i \in S |-> Body(g, i)]
<1>5. F = [i \in S |-> Body(F, i)]
  <2> HIDE DEF S, Body
  <2> QED BY <1>4
<1>6. FlattenSeq(e) = F[n]
  BY <1>0 DEF FlattenSeq
<1> HIDE DEF F
<1>a. F[1] = e[1]  BY <1>5
<1>b. ASSUME NEW i \in 2 .. n PROVE F[i] = F[i - 1] \o e[i]
  <2>1. i \in S /\ i # 1  OBVIOUS
  <2>2. F[i] = Body(F, i)
    <3> HIDE DEF S, Body
    <3> QED BY <1>5, <2>1
  <2> QED BY <2>1, <2>2
<1>7. \A i \in S : F[i] \in T
  <2> DEFINE N == {i \in Nat : i \in S => F[i] \in T}
  <2>1. 0 \in N  OBVIOUS
  <2>2. ASSUME NEW i \in 0 .. n - 1, i \in N PROVE i + 1 \in N
    <3>1. PICK x \in S : x = i + 1 /\ x - 1 = i  OBVIOUS
    <3>2. e[x] \in Seq(U)  BY <3>1
    <3>3. CASE i = 0
      <4>1. F[x] = e[x]  BY <1>a, <3>1, <3>3
      <4> QED BY <3>1, <3>2, <4>1
    <3>4. CASE i # 0
      <4>1. F[i] \in Seq(U)  BY <2>2, <3>4
      <4>2. x \in 2 .. n  BY <3>1, <3>4
      <4>3. F[x] = F[x - 1] \o e[x]  BY <1>b, <4>2
      <4>4. F[x] = F[i] \o e[x]  BY <3>1, <4>3
      <4>5. F[i] \o e[x] \in Seq(U)  BY <3>2, <4>1
      <4>6. F[x] \in T  BY <4>4, <4>5
      <4> HIDE DEF T
      <4> QED BY <3>1, <4>6
    <3> QED BY <3>3, <3>4
  <2>3. 0 .. n \subseteq N
    <3> HIDE DEF N
    <3> QED BY <2>1, <2>2, AllUpTo
  <2> QED BY <2>3
<1>8. F \in [S -> T]
  <2>1. F = [i \in S |-> F[i]]  BY <1>5
  <2> HIDE DEF S, T
  <2> QED BY <1>7, <2>1
<1> QED BY <1>6, <1>8, <1>a, <1>b DEF Joined

\* The i-th of the sequences that FlattenSeq joins is behind place P[i - 1].
Placed(P, e, n) ==
    /\ P[0] = 0
    /\ P[n] = Len(FlattenSeq(e))
    /\ \A i \in 1 .. n :
         /\ P[i] = P[i - 1] + Len(e[i])
         /\ P[i] =< P[n]
         /\ \A k \in 1 .. Len(e[i]) : FlattenSeq(e)[P[i - 1] + k] = e[i][k]

\* There are such places.
LEMMA FlattenPlaces ==
    ASSUME NEW U, NEW n \in Nat, NEW e \in [1 .. n -> Seq(U)]
    PROVE  FlattenSeq(e) \in Seq(U) /\ \E P \in [0 .. n -> Nat] : Placed(P, e, n)
<1> DEFINE r == FlattenSeq(e)
<1>1. CASE n = 0
  <2>1. e \in Seq(Seq(U)) /\ Len(e) = 0  BY <1>1, FunctionSeq
  <2>2. r = e /\ e = << >>  BY <2>1 DEF FlattenSeq
  <2> DEFINE P == [i \in 0 .. n |-> 0]
  <2>3. P \in [0 .. n -> Nat] /\ P[0] = 0 /\ P[n] = 0  BY <1>1
  <2>4. r \in Seq(U) /\ Len(r) = 0  BY <2>2
  <2>5. \A i \in 1 .. n : FALSE  BY <1>1
  <2> HIDE DEF P, r
  <2> QED BY <2>3, <2>4, <2>5 DEF r, Placed
<1>2. CASE n # 0
  <2>0. n \in Nat \ {0}  BY <1>2
  <2>1a. PICK F \in [1 .. n -> Seq(U)] : Joined(F, e, n)
    BY <2>0, FlattenSteps
  <2>1b. r = F[n]  BY <2>1a DEF Joined
  <2>1. F[1] = e[1] /\ \A i \in 2 .. n : F[i] = F[i - 1] \o e[i]
    BY <2>1a DEF Joined
  <2> HIDE DEF r
  <2> DEFINE P == [i \in 0 .. n |-> IF i = 0 THEN 0 ELSE Len(F[i])]
  <2>2. ASSUME NEW i \in 1 .. n
        PROVE  /\ e[i] \in Seq(U) /\ F[i] \in Seq(U) /\ Len(e[i]) \in Nat
               /\ P[i] \in Nat /\ P[i] = Len(F[i]) /\ P[i - 1] \in Nat
               /\ P[i] = P[i - 1] + Len(e[i])
               /\ \A k \in 1 .. Len(e[i]) : F[i][P[i - 1] + k] = e[i][k]
    <3>1. e[i] \in Seq(U) /\ F[i] \in Seq(U) /\ P[i] = Len(F[i])  BY <2>2
    <3>2. CASE i = 1
      <4>1. P[i - 1] = 0 /\ F[i] = e[i]  BY <2>1, <3>2
      <4>2. \A k \in 1 .. Len(e[i]) : 0 + k = k  BY <3>1
      <4> HIDE DEF P
      <4> QED BY <3>1, <4>1, <4>2
    <3>3. CASE i # 1
      <4>1. i \in 2 .. n /\ i - 1 \in 1 .. n  BY <3>3
      <4>2. F[i] = F[i - 1] \o e[i] /\ F[i - 1] \in Seq(U)  BY <2>1, <4>1
      <4>3. P[i - 1] = Len(F[i - 1])  BY <4>1
      <4> HIDE DEF P
      <4> QED BY <3>1, <4>2, <4>3
    <3> QED BY <3>2, <3>3
  <2>3. P \in [0 .. n -> Nat]  BY <2>2
  <2>4. P[0] = 0 /\ P[n] = Len(r) /\ r \in Seq(U)  BY <1>2, <2>1b
  <2> HIDE DEF P
  \* What is joined stays in front of what is joined to it.
  <2>5. ASSUME NEW i \in 1 .. n
        PROVE  P[i] =< P[n] /\ \A k \in 1 .. P[i] : r[k] = F[i][k]
    <3> DEFINE N == {l \in Nat : l \in i .. n =>
                       P[i] =< P[l] /\ \A k \in 1 .. P[i] : F[l][k] = F[i][k]}
    <3>1. 0 \in N  OBVIOUS
    <3>2. ASSUME NEW l \in 0 .. n - 1, l \in N PROVE l + 1 \in N
      <4>1. CASE l + 1 < i  BY <4>1
      <4>2. CASE l + 1 = i  BY <2>2, <4>2
      <4>3. CASE l + 1 > i
        <5>1. PICK x \in 2 .. n : x = l + 1 /\ x - 1 = l  BY <4>3
        <5>2. l \in i .. n /\ l \in 1 .. n /\ x \in 1 .. n  BY <4>3, <5>1
        <5>3. P[i] =< P[l] /\ \A k \in 1 .. P[i] : F[l][k] = F[i][k]
          BY Zenon, <3>2, <5>2
        <5>4. F[x] = F[l] \o e[x]  BY <2>1, <5>1
        <5>5. F[l] \in Seq(U) /\ e[x] \in Seq(U) /\ P[l] = Len(F[l]) /\ P[l] \in Nat
              /\ P[x] = P[l] + Len(e[x]) /\ P[x] \in Nat /\ Len(e[x]) \in Nat
          BY <2>2, <5>1, <5>2
        <5>6. P[i] \in Nat /\ P[i] =< P[l]  BY <2>2, <5>3
        <5>7. P[i] =< P[x]
          <6> DEFINE c == Len(e[x])
          <6>1. c \in Nat /\ P[x] = P[l] + c /\ P[l] \in Nat  BY <5>5
          <6> HIDE DEF c
          <6> QED BY <5>6, <6>1
        <5>8. ASSUME NEW k \in 1 .. P[i] PROVE F[x][k] = F[i][k]
          <6>1. k \in 1 .. Len(F[l])  BY <5>5, <5>6
          <6>2. F[x][k] = F[l][k]
            <7> DEFINE head == F[l]
                       next == e[x]
            <7>1. head \in Seq(U) /\ next \in Seq(U) /\ F[x] = head \o next
                  /\ k \in 1 .. Len(head)
              BY <5>4, <5>5, <6>1
            <7> HIDE DEF head, next
            <7>2. (head \o next)[k] = head[k]  BY <7>1
            <7> QED BY <7>1, <7>2 DEF head
          <6> QED BY <5>3, <6>2
        <5> QED BY <5>1, <5>7, <5>8
      <4> QED BY <4>1, <4>2, <4>3
    <3>3. 0 .. n \subseteq N
      <4> HIDE DEF N
      <4> QED BY <3>1, <3>2, AllUpTo
    <3>4. n \in N /\ n \in i .. n  BY <3>3
    <3> QED BY <2>1b, <3>4
  <2>6. ASSUME NEW i \in 1 .. n, NEW k \in 1 .. Len(e[i])
        PROVE  r[P[i - 1] + k] = e[i][k]
    <3>1. P[i - 1] + k \in 1 .. P[i]  BY <2>2
    <3> QED BY <2>2, <2>5, <3>1
  <2> QED BY <2>2, <2>3, <2>4, <2>5, <2>6 DEF r, Placed
<1> QED BY <1>1, <1>2

\* What url_decode makes of the rest of a string.
LEMMA DecodeSteps ==
    ASSUME NEW s \in Seq(Int)
    PROVE  \E f \in [1 .. Len(s) + 3 -> Seq(Int)] :
             /\ url_decode(s) = f[1]
             /\ \A i \in 1 .. Len(s) + 3 : i > Len(s) => f[i] = << >>
             /\ \A i \in 1 .. Len(s) :
                  f[i] = IF s[i] # PERCENT THEN <<s[i]>> \o f[i + 1]
                         ELSE <<(16 * char_to_dec(s[i + 1]) + char_to_dec(s[i + 2])) % 256>>
                                \o f[i + 3]
<1> DEFINE S == 1 .. Len(s) + 3
           T == Seq(Int)
           halt == {i \in S : i > Len(s)}
           m == [i \in S |-> Len(s) + 3 - i]
           pred == [i \in S |-> IF s[i] # PERCENT THEN i + 1 ELSE i + 3]
           base == [i \in S |-> << >>]
           Char(i) == IF s[i] # PERCENT THEN s[i]
                      ELSE (16 * char_to_dec(s[i + 1]) + char_to_dec(s[i + 2])) % 256
           step == [it \in S \X T |-> <<Char(it[1])>> \o it[2]]
           Body(f, i) ==
               IF i > Len(s) THEN << >>
               ELSE IF s[i] # PERCENT THEN <<s[i]>> \o f[i + 1]
               ELSE <<(16 * char_to_dec(s[i + 1]) + char_to_dec(s[i + 2])) % 256>>
                      \o f[i + 3]
<1>0. ASSUME NEW c PROVE char_to_dec(c) \in Int
  <2>1. CASE c \in 48 .. 57  BY <2>1 DEF char_to_dec, DIGITS
  <2>2. CASE c \notin 48 .. 57 /\ c \in 97 .. 102  BY <2>2 DEF char_to_dec, DIGITS
  <2>3. CASE c \notin 48 .. 57 /\ c \notin 97 .. 102 /\ c \in 65 .. 70
    BY <2>3 DEF char_to_dec, DIGITS
  <2>4. CASE c \notin 48 .. 57 /\ c \notin 97 .. 102 /\ c \notin 65 .. 70
    BY <2>4 DEF char_to_dec, DIGITS
  <2> QED BY <2>1, <2>2, <2>3, <2>4
<1>1. ASSUME NEW i \in S \ halt PROVE Char(i) \in Int /\ <<Char(i)>> \in Seq(Int)
  <2>1. i \in 1 .. Len(s)  OBVIOUS
  <2>2. s[i] \in Int  BY <2>1
  <2>3. char_to_dec(s[i + 1]) \in Int /\ char_to_dec(s[i + 2]) \in Int  BY <1>0
  <2>4. (16 * char_to_dec(s[i + 1]) + char_to_dec(s[i + 2])) % 256 \in Int  BY <2>3
  <2>5. Char(i) \in Int  BY <2>2, <2>4
  <2> HIDE DEF Char
  <2> QED BY <2>5
<1> HIDE DEF Char
<1>2. \E f \in [S -> T] :
        f = [i \in S |-> IF i \in halt THEN base[i] ELSE step[<<i, f[pred[i]]>>]]
  <2>1. m \in [S -> Nat]  OBVIOUS
  <2>2. \A i \in S \ halt : pred[i] \in S /\ m[pred[i]] < m[i]  OBVIOUS
  <2>3. \A i \in S \cap halt : base[i] \in T  OBVIOUS
  <2>4. \A i \in S \ halt, t \in T : step[<<i, t>>] \in T
    <3> SUFFICES ASSUME NEW i \in S \ halt, NEW t \in T PROVE step[<<i, t>>] \in T
      OBVIOUS
    <3>1. step[<<i, t>>] = <<Char(i)>> \o t  OBVIOUS
    <3>2. <<Char(i)>> \in Seq(Int)  BY <1>1
    <3> HIDE DEF step
    <3> QED BY <3>1, <3>2
  <2>5. Recursive(S, T, m, halt, pred, base, step)
    <3> HIDE DEF m, pred, step, base, halt, T, S
    <3> QED BY <2>1, <2>2, <2>3, <2>4 DEF Recursive
  <2> HIDE DEF m, pred, step, base, halt, T, S
  <2> QED BY <2>5, Recursion
<1>3. PICK f \in [S -> T] :
        f = [i \in S |-> IF i \in halt THEN base[i] ELSE step[<<i, f[pred[i]]>>]]
  BY <1>2
<1>4. ASSUME NEW i \in S PROVE f[i] = Body(f, i)
  <2>1. CASE i \in halt
    <3>1. f[i] = base[i]
      <4> HIDE DEF base, step, halt, pred
      <4> QED BY <1>3, <2>1
    <3>2. i > Len(s)  BY <2>1
    <3> QED BY <3>1, <3>2
  <2>2. CASE i \notin halt
    <3>1. f[i] = step[<<i, f[pred[i]]>>]
      <4> HIDE DEF base, step, halt, pred
      <4> QED BY <1>3, <2>2
    <3>2. pred[i] \in S  BY <2>2
    <3>3. f[pred[i]] \in T
      <4> HIDE DEF pred, S, T
      <4> QED BY <3>2
    <3>4. step[<<i, f[pred[i]]>>] = <<Char(i)>> \o f[pred[i]]
      <4> HIDE DEF pred, S, T
      <4> QED BY <3>3
    <3>5. ~ (i > Len(s))  BY <2>2
    <3>6. pred[i] = IF s[i] # PERCENT THEN i + 1 ELSE i + 3  OBVIOUS
    <3> HIDE DEF pred, step
    <3> QED BY <3>1, <3>4, <3>5, <3>6 DEF Char
  <2> QED BY <2>1, <2>2
<1> DEFINE g == CHOOSE h : h = [i \in S |-> Body(h, i)]
<1>5. f = [i \in S |-> Body(f, i)]
  <2> HIDE DEF S, Body
  <2> QED BY <1>3, <1>4
<1>6. g = [i \in S |-> Body(g, i)]
  <2> HIDE DEF S, Body
  <2> QED BY <1>5
<1>7. url_decode(s) = g[1]  BY DEF url_decode
<1> HIDE DEF g
\* The recursion has one solution.
<1>8. ASSUME NEW i \in S PROVE g[i] = f[i]
  <2> DEFINE l == Len(s) + 3
             N == {k \in Nat : \A x \in S : x >= l - k => g[x] = f[x]}
  <2>0. l \in Nat  OBVIOUS
  <2>a. ASSUME NEW x \in S PROVE g[x] = Body(g, x) /\ f[x] = Body(f, x)
    <3> HIDE DEF S, Body
    <3> QED BY <1>5, <1>6
  <2>1. 0 \in N
    <3> SUFFICES ASSUME NEW x \in S, x >= l - 0 PROVE g[x] = f[x]
      OBVIOUS
    <3>1. x > Len(s)  OBVIOUS
    <3> QED BY <2>a, <3>1
  <2>2. ASSUME NEW k \in 0 .. l - 1, k \in N PROVE k + 1 \in N
    <3> SUFFICES ASSUME NEW x \in S, x >= l - (k + 1) PROVE g[x] = f[x]
      OBVIOUS
    <3>1. CASE x > Len(s)  BY <2>a, <3>1
    <3>2. CASE ~ (x > Len(s))
      <4>1. x + 1 \in S /\ x + 3 \in S /\ x + 1 >= l - k /\ x + 3 >= l - k
        BY <3>2
      <4>2. g[x + 1] = f[x + 1] /\ g[x + 3] = f[x + 3]
        <5> HIDE DEF l, S
        <5> QED BY <2>2, <4>1
      <4>3. Body(g, x) = Body(f, x)  BY <3>2, <4>2
      <4> HIDE DEF Body, S
      <4> QED BY <2>a, <4>3
    <3> QED BY <3>1, <3>2
  <2>3. 0 .. l \subseteq N
    <3> HIDE DEF N, l
    <3> QED BY <2>0, <2>1, <2>2, AllUpTo
  <2>4. l \in N /\ i >= l - l
    <3>1. l \in Nat /\ i \in Nat  OBVIOUS
    <3> HIDE DEF N, l
    <3> QED BY <2>3, <3>1
  <2> QED BY <2>4
<1>9. 1 \in S  OBVIOUS
<1>10. url_decode(s) = f[1]  BY <1>7, <1>8, <1>9
<1>11. \A i \in S : i > Len(s) => f[i] = << >>  BY <1>4
<1>12. ASSUME NEW i \in 1 .. Len(s)
       PROVE  f[i] = IF s[i] # PERCENT THEN <<s[i]>> \o f[i + 1]
                     ELSE <<(16 * char_to_dec(s[i + 1]) + char_to_dec(s[i + 2])) % 256>>
                            \o f[i + 3]
  <2>1. i \in S /\ ~ (i > Len(s))  OBVIOUS
  <2>2. f[i] = Body(f, i)  BY <1>4, <2>1
  <2> QED BY <2>1, <2>2
<1> QED BY <1>10, <1>11, <1>12

\* url_decode gives back the bytes of q from any encoding that writes each of
\* them either as it is or as a percent sign and two digits.
LEMMA DecodesEncoded ==
    ASSUME NEW q \in Seq(Byte), NEW e \in [1 .. Len(q) -> Seq(Int)],
           \A i \in 1 .. Len(q) :
               \/ e[i] = <<q[i]>> /\ q[i] # PERCENT
               \/ \E h \in Int, l \in Int :
                     /\ e[i] = <<PERCENT, h, l>>
                     /\ (16 * char_to_dec(h) + char_to_dec(l)) % 256 = q[i]
    PROVE  url_decode(FlattenSeq(e)) = q
<1> DEFINE n == Len(q)
           r == FlattenSeq(e)
<1>1. n \in Nat /\ q \in Seq(Int) /\ \A i \in 1 .. n : q[i] \in Int
  <2>1. n \in Nat /\ \A i \in 1 .. n : q[i] \in Byte  BY SeqFunction
  <2>2. q \in [1 .. n -> Int]
    <3>1. q = [i \in 1 .. n |-> q[i]]  BY SeqFunction
    <3>2. \A i \in 1 .. n : q[i] \in Int  BY <2>1, ByteInt
    <3> HIDE DEF n
    <3> QED BY <3>1, <3>2
  <2> QED BY <2>1, <2>2, FunctionSeq DEF Byte
<1>2a. PICK P \in [0 .. n -> Nat] : Placed(P, e, n)
  BY <1>1, FlattenPlaces
<1>2b. r \in Seq(Int)
  BY <1>1, FlattenPlaces
<1>2. /\ r \in Seq(Int)
        /\ P[0] = 0
        /\ P[n] = Len(r)
        /\ \A i \in 1 .. n :
             /\ P[i] = P[i - 1] + Len(e[i])
             /\ P[i] =< P[n]
             /\ \A k \in 1 .. Len(e[i]) : r[P[i - 1] + k] = e[i][k]
  BY <1>2a, <1>2b DEF Placed
<1> HIDE DEF r
<1>3. PICK f \in [1 .. Len(r) + 3 -> Seq(Int)] :
        /\ url_decode(r) = f[1]
        /\ \A i \in 1 .. Len(r) + 3 : i > Len(r) => f[i] = << >>
        /\ \A i \in 1 .. Len(r) :
             f[i] = IF r[i] # PERCENT THEN <<r[i]>> \o f[i + 1]
                    ELSE <<(16 * char_to_dec(r[i + 1]) + char_to_dec(r[i + 2])) % 256>>
                           \o f[i + 3]
  BY <1>2, DecodeSteps
<1>4. Len(r) \in Nat  BY <1>2
\* What is behind the i-th part decodes to what is behind the i-th byte.
<1> DEFINE Rest(i) == [k \in 1 .. n - i |-> q[i + k]]
<1>5. ASSUME NEW i \in 1 .. n PROVE f[P[i - 1] + 1] = <<q[i]>> \o f[P[i] + 1]
  <2> DEFINE a == P[i - 1]
             b == P[i]
             c == e[i]
  <2>1. a \in Nat /\ b \in Nat /\ b = a + Len(c) /\ b =< Len(r)
    <3>1. i \in 0 .. n /\ i - 1 \in 0 .. n  BY <1>1
    <3>2. a \in Nat /\ b \in Nat  BY <3>1
    <3> HIDE DEF c
    <3>3. b = a + Len(c) /\ b =< Len(r)  BY <1>2 DEF c
    <3> QED BY <3>2, <3>3
  <2>2. \A k \in 1 .. Len(c) : r[a + k] = c[k]  BY <1>2
  <2> HIDE DEF a, b
  <2>3. CASE c = <<q[i]>> /\ q[i] # PERCENT
    <3>1. Len(c) = 1 /\ c[1] = q[i]  BY <2>3
    <3>2. r[a + 1] = q[i]
      <4> HIDE DEF c
      <4> QED BY <2>2, <3>1
    <3>3. b = a + 1 /\ a + 1 \in 1 .. Len(r) /\ a + 1 + 1 = b + 1
      <4> HIDE DEF c
      <4> QED BY <1>4, <2>1, <3>1
    <3>4. f[a + 1] = <<r[a + 1]>> \o f[a + 1 + 1]
      BY <1>3, <2>3, <3>2, <3>3
    <3>5. f[a + 1] = <<q[i]>> \o f[b + 1]  BY <3>2, <3>3, <3>4
    <3> QED BY <3>5 DEF a, b
  <2>4. ASSUME NEW h \in Int, NEW l \in Int, c = <<PERCENT, h, l>>,
               (16 * char_to_dec(h) + char_to_dec(l)) % 256 = q[i]
        PROVE  f[a + 1] = <<q[i]>> \o f[b + 1]
    <3>1. Len(c) = 3 /\ c[1] = PERCENT /\ c[2] = h /\ c[3] = l  BY <2>4
    <3>2. r[a + 1] = PERCENT /\ r[a + 2] = h /\ r[a + 3] = l
      <4> HIDE DEF c
      <4> QED BY <2>2, <3>1
    <3>3. b = a + 3 /\ a + 1 \in 1 .. Len(r) /\ a + 1 + 1 = a + 2 /\ a + 1 + 2 = a + 3
          /\ a + 1 + 3 = b + 1
      <4> HIDE DEF c
      <4> QED BY <1>4, <2>1, <3>1
    <3>4. f[a + 1] = <<(16 * char_to_dec(r[a + 1 + 1]) + char_to_dec(r[a + 1 + 2])) % 256>>
                       \o f[a + 1 + 3]
      BY <1>3, <3>2, <3>3
    <3> QED BY <2>4, <3>2, <3>3, <3>4
  <2> QED BY <2>3, <2>4 DEF a, b
<1>6. ASSUME NEW i \in 0 .. n PROVE f[P[i] + 1] = Rest(i)
  <2> DEFINE N == {k \in Nat : \A x \in 0 .. n : x = n - k => f[P[x] + 1] = Rest(x)}
  <2>1. 0 \in N
    <3> SUFFICES f[P[n] + 1] = Rest(n)  BY <1>1
    <3>1. P[n] + 1 \in 1 .. Len(r) + 3 /\ P[n] + 1 > Len(r)  BY <1>2, <1>4
    <3>2. f[P[n] + 1] = << >>  BY <1>3, <3>1
    <3>3. 1 .. n - n = {}  BY <1>1
    <3>4. Rest(n) = [k \in {} |-> q[n + k]]  BY <3>3
    <3>5. [k \in {} |-> q[n + k]] = << >>  OBVIOUS
    <3> QED BY <3>2, <3>4, <3>5
  <2>2. ASSUME NEW k \in 0 .. n - 1, k \in N PROVE k + 1 \in N
    <3>0. k \in Nat /\ k + 1 \in Nat /\ k =< n - 1  BY <1>1
    <3> SUFFICES ASSUME NEW x \in 0 .. n, x = n - (k + 1) PROVE f[P[x] + 1] = Rest(x)
      BY <3>0
    <3> DEFINE y == n - k
    <3>1. y \in 1 .. n /\ y = x + 1 /\ y - 1 = x /\ y \in 0 .. n
      <4> HIDE DEF n
      <4> QED BY <1>1, <3>0
    <3>2. f[P[y] + 1] = Rest(y)
      <4>1. \A z \in 0 .. n : z = y => f[P[z] + 1] = Rest(z)  BY <2>2
      <4> HIDE DEF y, Rest
      <4> QED BY <3>1, <4>1
    <3> HIDE DEF y
    <3>3. f[P[x] + 1] = <<q[y]>> \o f[P[y] + 1]  BY <1>5, <3>1
    <3> DEFINE tail == Rest(y)
    <3>4. tail \in Seq(Int) /\ Len(tail) = n - y
      <4>1. n - y \in Nat  BY <1>1, <3>1
      <4>2. \A z \in 1 .. n - y : q[y + z] \in Int
        <5> SUFFICES ASSUME NEW z \in 1 .. n - y PROVE q[y + z] \in Int  OBVIOUS
        <5>1. y + z \in 1 .. n  BY <1>1, <3>1
        <5> QED BY <1>1, <5>1
      <4>3. tail \in [1 .. n - y -> Int]  BY <4>2
      <4> HIDE DEF tail
      <4> QED BY <4>1, <4>3, FunctionSeq
    <3>5. q[y] \in Int /\ <<q[y]>> \in Seq(Int) /\ Len(<<q[y]>>) = 1  BY <1>1, <3>1
    <3>6. Rest(x) \in Seq(Int) /\ Len(Rest(x)) = n - x
      <4> DEFINE rest == Rest(x)
      <4>1. n - x \in Nat  BY <1>1, <3>1
      <4>2. \A z \in 1 .. n - x : q[x + z] \in Int
        <5> SUFFICES ASSUME NEW z \in 1 .. n - x PROVE q[x + z] \in Int  OBVIOUS
        <5>1. x + z \in 1 .. n  BY <1>1, <3>1
        <5> QED BY <1>1, <5>1
      <4>3. rest \in [1 .. n - x -> Int]  BY <4>2
      <4> HIDE DEF rest
      <4>4. rest \in Seq(Int) /\ Len(rest) = n - x  BY <4>1, <4>3, FunctionSeq
      <4> QED BY <4>4 DEF rest
    <3> DEFINE whole == <<q[y]>> \o tail
    <3>7. whole \in Seq(Int) /\ Len(whole) = 1 + (n - y)
          /\ whole[1] = q[y] /\ \A z \in 1 .. n - y : whole[1 + z] = tail[z]
      <4>1. tail \in Seq(Int) /\ Len(tail) = n - y /\ q[y] \in Int  BY <3>4, <3>5
      <4> HIDE DEF tail
      <4>2. /\ whole \in Seq(Int) /\ Len(whole) = 1 + Len(tail) /\ whole[1] = q[y]
            /\ \A z \in 1 .. Len(tail) : whole[1 + z] = tail[z]
        <5> DEFINE a == q[y]
        <5>1. a \in Int  BY <4>1
        <5> HIDE DEF a
        <5>2. /\ <<a>> \o tail \in Seq(Int) /\ Len(<<a>> \o tail) = 1 + Len(tail)
              /\ (<<a>> \o tail)[1] = a
              /\ \A z \in 1 .. Len(tail) : (<<a>> \o tail)[1 + z] = tail[z]
          BY <4>1, <5>1, PutInFront
        <5> QED BY <5>2 DEF a
      <4> QED BY <4>1, <4>2
    <3>8. ASSUME NEW z \in 1 .. Len(whole) PROVE whole[z] = Rest(x)[z]
      <4> HIDE DEF whole
      <4>1. z \in 1 .. n - x  BY <1>1, <3>1, <3>7
      <4>2. CASE z = 1
        <5> QED BY <3>1, <3>7, <4>1, <4>2
      <4>3. CASE z # 1
        <5>1. PICK u \in 1 .. n - y : z = 1 + u  BY <1>1, <3>1, <4>1, <4>3
        <5>2. whole[z] = q[y + u]  BY <3>7, <5>1
        <5>3. x + z = y + u  BY <1>1, <3>1, <5>1
        <5> QED BY <4>1, <5>2, <5>3
      <4> QED BY <4>2, <4>3
    <3>9. whole = Rest(x)
      <4> DEFINE rest == Rest(x)
      <4>1. Len(whole) = Len(rest)  BY <1>1, <3>1, <3>6, <3>7
      <4>2. rest \in Seq(Int) /\ \A z \in 1 .. Len(whole) : whole[z] = rest[z]
        BY <3>6, <3>8
      <4> HIDE DEF whole, rest
      <4>3. whole = rest  BY <3>7, <4>1, <4>2, SameSeq
      <4> QED BY <4>3 DEF rest
    <3> QED BY <3>2, <3>3, <3>9
  <2>3. 0 .. n \subseteq N
    <3> HIDE DEF N, n
    <3> QED BY <1>1, <2>1, <2>2, AllUpTo
  <2>4. n - i \in 0 .. n /\ i = n - (n - i)
    <3> HIDE DEF n
    <3> QED BY <1>1
  <2>5. n - i \in N
    <3> HIDE DEF N
    <3> QED BY <2>3, <2>4
  <2> QED BY <2>4, <2>5
<1>7. f[1] = q
  <2>1. 0 \in 0 .. n /\ P[0] + 1 = 1  BY <1>1, <1>2
  <2>2. f[1] = Rest(0)  BY <1>6, <2>1
  <2>3. n - 0 = n /\ \A k \in 1 .. n : 0 + k = k  BY <1>1
  <2>4. Rest(0) = [k \in 1 .. n |-> q[k]]  BY <2>3
  <2>5. q = [k \in 1 .. n |-> q[k]]  BY <1>1, SeqFunction
  <2> QED BY <2>2, <2>4, <2>5
<1> QED BY <1>3, <1>7 DEF r

\* The two digits of a byte, in either case of letters.
LEMMA DigitsOfByte ==
    ASSUME NEW b \in Byte, NEW ten \in {65, 97}
    PROVE  /\ Digit(b \div 16, ten) \in Int /\ Digit(b % 16, ten) \in Int
           /\ (16 * char_to_dec(Digit(b \div 16, ten)) + char_to_dec(Digit(b % 16, ten))) % 256 = b
<1>1. b \div 16 \in 0 .. 15 /\ b % 16 \in 0 .. 15 /\ b = 16 * (b \div 16) + (b % 16)
  BY DEF Byte
<1>2. ASSUME NEW d \in 0 .. 15 PROVE Digit(d, ten) \in Int /\ char_to_dec(Digit(d, ten)) = d
  <2>1. CASE d =< 9  BY <2>1 DEF Digit, char_to_dec, DIGITS
  <2>2. CASE d > 9 /\ ten = 65  BY <2>2 DEF Digit, char_to_dec, DIGITS
  <2>3. CASE d > 9 /\ ten = 97  BY <2>3 DEF Digit, char_to_dec, DIGITS
  <2> QED BY <2>1, <2>2, <2>3
<1>3. b % 256 = b  BY DEF Byte
<1> QED BY <1>1, <1>2, <1>3

\* url_decode undoes url_encode, and what a browser may write instead, for
\* every sequence of bytes.
THEOREM EncodingRoundTrips ==
    ASSUME NEW qs \in SUBSET Seq(Byte)
    PROVE  RoundTrips(qs)
<1> SUFFICES ASSUME NEW q \in qs
             PROVE  url_decode(url_encode(q)) = q /\ url_decode(lower_encode(q)) = q
  BY DEF RoundTrips
<1>1. q \in Seq(Byte) /\ DOMAIN q = 1 .. Len(q) /\ \A i \in 1 .. Len(q) : q[i] \in Byte
  OBVIOUS
<1>2. url_decode(url_encode(q)) = q
  <2> DEFINE e == [i \in DOMAIN q |->
                     IF q[i] \in Unreserved THEN <<q[i]>>
                     ELSE <<PERCENT, dec_to_char(q[i] \div 16), dec_to_char(q[i] % 16)>>]
  <2>1. ASSUME NEW i \in 1 .. Len(q)
        PROVE  /\ e[i] \in Seq(Int)
               /\ \/ e[i] = <<q[i]>> /\ q[i] # PERCENT
                  \/ \E h \in Int, l \in Int :
                        /\ e[i] = <<PERCENT, h, l>>
                        /\ (16 * char_to_dec(h) + char_to_dec(l)) % 256 = q[i]
    <3>1. q[i] \in Int /\ PERCENT \in Int
      <4>1. q[i] \in Byte  BY <1>1
      <4> HIDE DEF e
      <4> QED BY <4>1, ByteInt DEF PERCENT
    <3>2. CASE q[i] \in Unreserved
      <4>1. e[i] = <<q[i]>>  BY <1>1, <3>2
      <4>2. 37 \notin Unreserved  BY DEF Unreserved, DIGITS, UPPER, LOWER
      <4>3. q[i] # PERCENT
        <5> HIDE DEF e
        <5> QED BY <3>2, <4>2 DEF PERCENT
      <4> HIDE DEF e
      <4> QED BY <3>1, <4>1, <4>3
    <3>3. CASE q[i] \notin Unreserved
      <4> DEFINE h == Digit(q[i] \div 16, 65)
                 l == Digit(q[i] % 16, 65)
      <4>1. e[i] = <<PERCENT, h, l>>  BY <1>1, <3>3 DEF dec_to_char
      <4>2. h \in Int /\ l \in Int /\ (16 * char_to_dec(h) + char_to_dec(l)) % 256 = q[i]
        BY <1>1, DigitsOfByte
      <4> HIDE DEF e, h, l
      <4> QED BY <3>1, <4>1, <4>2
    <3> QED BY <3>2, <3>3
  <2>2. e \in [1 .. Len(q) -> Seq(Int)]
    <3>1. e = [i \in 1 .. Len(q) |-> e[i]]  BY <1>1
    <3> HIDE DEF e
    <3> QED BY <2>1, <3>1
  <2>3. url_encode(q) = FlattenSeq(e)  BY DEF url_encode
  <2> HIDE DEF e
  <2>4. url_decode(FlattenSeq(e)) = q  BY <1>1, <2>1, <2>2, DecodesEncoded
  <2> QED BY <2>3, <2>4
<1>3. url_decode(lower_encode(q)) = q
  <2> DEFINE e == [i \in DOMAIN q |->
                     <<PERCENT, Digit(q[i] \div 16, 97), Digit(q[i] % 16, 97)>>]
  <2>1. ASSUME NEW i \in 1 .. Len(q)
        PROVE  /\ e[i] \in Seq(Int)
               /\ \/ e[i] = <<q[i]>> /\ q[i] # PERCENT
                  \/ \E h \in Int, l \in Int :
                        /\ e[i] = <<PERCENT, h, l>>
                        /\ (16 * char_to_dec(h) + char_to_dec(l)) % 256 = q[i]
    <3> DEFINE h == Digit(q[i] \div 16, 97)
               l == Digit(q[i] % 16, 97)
    <3>1. e[i] = <<PERCENT, h, l>> /\ PERCENT \in Int  BY <1>1 DEF PERCENT
    <3>2. h \in Int /\ l \in Int /\ (16 * char_to_dec(h) + char_to_dec(l)) % 256 = q[i]
      BY <1>1, DigitsOfByte
    <3> HIDE DEF e, h, l
    <3> QED BY <3>1, <3>2
  <2>2. e \in [1 .. Len(q) -> Seq(Int)]
    <3>1. e = [i \in 1 .. Len(q) |-> e[i]]  BY <1>1
    <3> HIDE DEF e
    <3> QED BY <2>1, <3>1
  <2>3. lower_encode(q) = FlattenSeq(e)  BY DEF lower_encode
  <2> HIDE DEF e
  <2>4. url_decode(FlattenSeq(e)) = q  BY <1>1, <2>1, <2>2, DecodesEncoded
  <2> QED BY <2>3, <2>4
<1> QED BY <1>2, <1>3

\* What is encoded is a sequence of characters.
LEMMA EncodedChars ==
    ASSUME NEW q \in Seq(Byte)
    PROVE  url_encode(q) \in Seq(Int) /\ lower_encode(q) \in Seq(Int)
<1> DEFINE e == [i \in DOMAIN q |->
                   IF q[i] \in Unreserved THEN <<q[i]>>
                   ELSE <<PERCENT, dec_to_char(q[i] \div 16), dec_to_char(q[i] % 16)>>]
           l == [i \in DOMAIN q |->
                   <<PERCENT, Digit(q[i] \div 16, 97), Digit(q[i] % 16, 97)>>]
<1>1. ASSUME NEW i \in 1 .. Len(q)
      PROVE  q[i] \in Int /\ q[i] \div 16 \in Int /\ q[i] % 16 \in Int
  <2>1. q[i] \in Byte  OBVIOUS
  <2>2. q[i] \in Int  BY <2>1, ByteInt
  <2> QED BY <2>2
<1>2. \A n \in Int, t \in Int : Digit(n, t) \in Int /\ dec_to_char(n) \in Int
  BY DEF Digit, dec_to_char
<1>3. DOMAIN q = 1 .. Len(q) /\ Len(q) \in Nat  OBVIOUS
<1>4. e \in [1 .. Len(q) -> Seq(Int)]
  <2>1. ASSUME NEW i \in 1 .. Len(q) PROVE e[i] \in Seq(Int)
    <3>1. CASE q[i] \in Unreserved
      <4>1. e[i] = <<q[i]>>  BY <1>3, <3>1
      <4> HIDE DEF e
      <4> QED BY <1>1, <4>1
    <3>2. CASE q[i] \notin Unreserved
      <4> DEFINE a == dec_to_char(q[i] \div 16)
                 b == dec_to_char(q[i] % 16)
      <4>1. e[i] = <<PERCENT, a, b>>  BY <1>3, <3>2
      <4>2. a \in Int /\ b \in Int /\ PERCENT \in Int
        BY <1>1, <1>2 DEF PERCENT
      <4> HIDE DEF e, a, b
      <4> QED BY <4>1, <4>2
    <3> QED BY <3>1, <3>2
  <2>2. e = [i \in 1 .. Len(q) |-> e[i]]  BY <1>3
  <2> HIDE DEF e
  <2> QED BY <2>1, <2>2
<1>5. l \in [1 .. Len(q) -> Seq(Int)]
  <2>1. ASSUME NEW i \in 1 .. Len(q) PROVE l[i] \in Seq(Int)
    <3> DEFINE a == Digit(q[i] \div 16, 97)
               b == Digit(q[i] % 16, 97)
    <3>1. l[i] = <<PERCENT, a, b>>  BY <1>3
    <3>2. 97 \in Int /\ PERCENT \in Int  BY DEF PERCENT
    <3>3. a \in Int /\ b \in Int  BY <1>1, <1>2, <3>2
    <3> HIDE DEF l, a, b
    <3> QED BY <3>1, <3>2, <3>3
  <2>2. l = [i \in 1 .. Len(q) |-> l[i]]  BY <1>3
  <2> HIDE DEF l
  <2> QED BY <2>1, <2>2
<1>6. url_encode(q) = FlattenSeq(e) /\ lower_encode(q) = FlattenSeq(l)
  BY DEF url_encode, lower_encode
<1> HIDE DEF e, l
<1> QED BY <1>3, <1>4, <1>5, <1>6, FlattenPlaces

-----------------------------------------------------------------------------
(* Whose answer a client gets.                                             *)

\* Between recv and close, question, answer and what was sent belong to the
\* client behind client_socket, if it is still there.
AnswerInv ==
    /\ DOMAIN request = Clients
    /\ DOMAIN asked = Clients
    /\ DOMAIN received = Clients
    /\ \A c \in Clients :
          IF request[c] \in {NULL, NoSearch} THEN asked[c] = NULL
          ELSE asked[c] \in Questions /\ url_decode(request[c]) = asked[c]
    /\ thread \in {"recv", "search"} => answer = << >>
    /\ thread \in {"search", "send", "close"} =>
          client[current] \notin {"away", "connected"}
    /\ client[current] = "asked" /\ asked[current] # NULL =>
          /\ thread = "search" =>
                question = asked[current] /\ question \in Questions
          /\ thread = "send" => answer = Reply(asked[current])
          /\ thread = "close" => received[current] = Reply(asked[current])
    /\ AnswersBelong

\* main() and stop_server at most turn clients into ones cut off.
LEMMA AnswerCallers ==
    TypeOK /\ AnswerInv /\ (Start \/ StopServer) => AnswerInv'
<1> SUFFICES ASSUME TypeOK, AnswerInv, Start \/ StopServer PROVE AnswerInv'
  OBVIOUS
<1> USE DEF object, kernel, caller, locals, ends, AnswerInv, AnswersBelong
<1>1. ASSUME NEW f, StartServer(f) PROVE AnswerInv'
  BY <1>1 DEF StartServer
<1>2. ASSUME NEW b \in BOOLEAN, CreateThread(b) PROVE AnswerInv'
  BY <1>2 DEF CreateThread
<1>3. CASE StopInstance \/ StopExit
  BY <1>3 DEF StopInstance, StopExit
<1>4. ASSUME NEW cs, client' = Cut(cs),
             UNCHANGED <<thread, locals, request, asked, received>>
      PROVE  AnswerInv'
  <2>1. \A c \in Clients : client'[c] \in {"cut", client[c]}
    BY <1>4 DEF Cut
  <2>2. thread \in {"search", "send", "close"} => current \in Clients
    BY DEF TypeOK, Serving
  <2> QED BY <1>4, <2>1, <2>2
<1>5. CASE StopShutdown  BY <1>4, <1>5 DEF StopShutdown
<1>6. CASE StopClose  BY <1>4, <1>6 DEF StopClose
<1> QED BY <1>1, <1>2, <1>3, <1>5, <1>6 DEF Start, StopServer

\* The thread's steps hand question, answer and reply on.
LEMMA AnswerThread == TypeOK /\ AnswerInv /\ Thread => AnswerInv'
<1> SUFFICES ASSUME TypeOK, AnswerInv, Thread PROVE AnswerInv'
  OBVIOUS
<1> USE DEF object, kernel, caller, locals, ends, AnswerInv, AnswersBelong
<1>1. CASE Loop \/ Accept \/ AcceptFails
  BY <1>1 DEF Loop, Accept, AcceptFails
<1>2. CASE Recv \/ RecvOther
  <2>1. current \in Clients
    BY <1>2 DEF Recv, RecvOther, Arrived, TypeOK, Serving
  <2> QED BY <1>2, <2>1 DEF Recv, RecvOther, Arrived
<1>3. CASE RecvNothing
  BY <1>3 DEF RecvNothing
<1>4. CASE SearchWords
  <2>1. answer = << >>  BY <1>4 DEF SearchWords
  <2>2. client[current] = "asked" /\ asked[current] # NULL =>
           Reply(question) \in Seq(0 .. 255)
    BY <1>4, HttpAssumption DEF SearchWords
  <2>3. client[current] = "asked" /\ asked[current] # NULL =>
           answer' = Reply(question)
    BY <1>4, <2>1, <2>2 DEF SearchWords
  <2> QED BY <1>4, <2>3 DEF SearchWords
<1>5. CASE Send
  <2>1. current \in Clients  BY <1>5 DEF Send, TypeOK, Serving
  <2>2. \A c \in Clients : client[c] = "answered" => received'[c] = received[c]
    BY <1>5, <2>1 DEF Send
  <2>3. client[current] = "asked" /\ asked[current] # NULL =>
           received'[current] = Reply(asked[current])
    BY <1>5, <2>1 DEF Send, TypeOK
  <2> QED BY <1>5, <2>1, <2>2, <2>3 DEF Send
<1>6. CASE SendKills \/ RecvKills
  <2>1. Die  BY <1>6 DEF SendKills, RecvKills
  <2>2. \A c \in Clients : client'[c] \in {client[c], "cut"}
    BY <2>1 DEF Die, Cut
  <2> QED BY <2>1, <2>2 DEF Die
<1>7. CASE Close
  <2>1. current \in Clients  BY <1>7 DEF Close, TypeOK, Serving
  <2> QED BY <1>7, <2>1 DEF Close, TypeOK
<1> QED
  BY <1>1, <1>2, <1>3, <1>4, <1>5, <1>6, <1>7 DEF Thread

\* Whoever asks encodes its question so that the server decodes it.
LEMMA AnswerClients ==
    ASSUME TypeOK, AnswerInv, NEW c \in Clients,
           Connect(c) \/ Asks(c) \/ HangUp(c)
    PROVE  AnswerInv'
<1> USE DEF object, kernel, caller, locals, ends, AnswerInv, AnswersBelong
<1>1. thread \in {"search", "send", "close"} => current \in Clients
  BY DEF TypeOK, Serving
<1>2. CASE Connect(c)
  BY <1>1, <1>2 DEF Connect, TypeOK
<1>3. ASSUME NEW q \in Questions, NEW r \in {url_encode(q), lower_encode(q)},
             Ask(c, q, r)
      PROVE  AnswerInv'
  <2>1. url_decode(r) = q
    <3>1. RoundTrips(Questions)  BY HttpAssumption, EncodingRoundTrips DEF Byte
    <3> QED BY <3>1 DEF RoundTrips
  <2>2. r \notin {NULL, NoSearch} /\ q # NULL
    <3>1. q \in Seq(Byte)  BY HttpAssumption DEF Byte
    <3>2. q \in Seq(Int)  BY <3>1, ByteInt
    <3> QED BY <3>1, <3>2, HttpAssumption, EncodedChars
  <2> QED BY <1>1, <1>3, <2>1, <2>2, HttpAssumption DEF Ask, TypeOK
<1>4. CASE Ask(c, NULL, NoSearch)
  BY <1>1, <1>4 DEF Ask, TypeOK
<1>5. CASE HangUp(c)
  BY <1>1, <1>5 DEF HangUp, TypeOK
<1> QED BY <1>2, <1>3, <1>4, <1>5 DEF Asks

\* Every client that is answered gets the reply to its own question, whatever
\* bytes it asked for and however it encoded them.
THEOREM AnswersToOwnQuestions == Spec => []AnswersBelong
<1>1. Init => AnswerInv
  BY DEF Init, AnswerInv, AnswersBelong
<1>2. TypeOK /\ AnswerInv /\ [Next]_vars => AnswerInv'
  <2>1. ASSUME AnswerInv, UNCHANGED vars PROVE AnswerInv'
    BY <2>1 DEF vars, object, kernel, caller, locals, ends, AnswerInv, AnswersBelong
  <2> QED BY <2>1, AnswerCallers, AnswerThread, AnswerClients DEF Next
<1>3. AnswerInv => AnswersBelong  BY DEF AnswerInv
<1> QED BY <1>1, <1>2, <1>3, TypeCorrect, PTL DEF Spec

=============================================================================
