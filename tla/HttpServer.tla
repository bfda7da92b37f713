----------------------------- MODULE HttpServer -----------------------------
(***************************************************************************)
(* Search_HttpServer: start_server by main(), the thread's loop, and       *)
(* stop_server by some caller, over clients that connect, ask and may hang *)
(* up.  instance() returns the server by value, so start_server and        *)
(* stop_server each work on a temporary copy: the thread keeps the address *)
(* of the first one.                                                       *)
(*                                                                         *)
(* A request arrives as a whole, and may be no search at all.  What        *)
(* Search_Query makes of a question is left out: it is SearchSystem's.     *)
(***************************************************************************)
EXTENDS Integers, Sequences, SequencesExt

CONSTANTS
    Clients,
    Questions,    \* what clients ask: sequences of bytes
    Reply(_),     \* Search_Query::query and the joining of its documents
    NULL,
    NoSearch,     \* a request without "GET /?search=" or " HTTP/1.1", or too long
    MaxStops,     \* bound: calls of stop_server
    MaxFailures   \* bound: failures of accept for lack of descriptors

ASSUME HttpAssumption ==
    /\ Questions \subseteq Seq(0 .. 255)
    /\ \A q \in Questions : Reply(q) \in Seq(0 .. 255)
    /\ MaxStops \in Nat
    /\ MaxFailures \in Nat
    /\ NULL \notin Clients
    /\ NoSearch # NULL
    /\ {NULL, NoSearch} \cap Seq(Int) = {}

-----------------------------------------------------------------------------
(* Encoding of questions.                                                  *)

PERCENT == 37

DIGITS == 48 .. 57
UPPER == 65 .. 90
LOWER == 97 .. 122

\* A digit of a base 16 number, given the character of ten.
Digit(n, ten) == IF n =< 9 THEN 48 + n ELSE ten + n - 10

dec_to_char(n) == Digit(n, 65)

Unreserved == DIGITS \cup LOWER \cup UPPER \cup {46}

url_encode(s) ==
    FlattenSeq([i \in DOMAIN s |->
        IF s[i] \in Unreserved THEN <<s[i]>>
        ELSE <<PERCENT, dec_to_char(s[i] \div 16), dec_to_char(s[i] % 16)>>])

\* Browsers may write the digits a to f, and escape what they like.
lower_encode(s) ==
    FlattenSeq([i \in DOMAIN s |->
        <<PERCENT, Digit(s[i] \div 16, 97), Digit(s[i] % 16, 97)>>])

char_to_dec(c) ==
    IF c \in DIGITS THEN c - 48
    ELSE IF c \in 97 .. 102 THEN c - 97 + 10
    ELSE IF c \in 65 .. 70 THEN c - 65 + 10
    ELSE -1

\* A byte is what remains of the sum in eight bits.
url_decode(s) ==
    LET from[i \in 1 .. Len(s) + 3] ==
            IF i > Len(s) THEN << >>
            ELSE IF s[i] # PERCENT THEN <<s[i]>> \o from[i + 1]
            ELSE <<(16 * char_to_dec(s[i + 1]) + char_to_dec(s[i + 2])) % 256>>
                     \o from[i + 3]
    IN  from[1]

\* Decoding undoes either encoding.
RoundTrips(qs) ==
    \A q \in qs :
        url_decode(url_encode(q)) = q /\ url_decode(lower_encode(q)) = q

-----------------------------------------------------------------------------
VARIABLES
    shared,           \* the build gives both temporaries the same memory
    m_exit,           \* of the singleton and of the temporaries
    m_listen_socket,  \* the same: "zero" is descriptor 0, "listen" the socket
    main,             \* what main() has reached
    socket,           \* the kernel's listening socket
    backlog,          \* connections nobody has accepted yet
    thread,           \* the thread's next step
    fd,               \* the socket it has passed to accept
    current,          \* the client behind client_socket
    question, answer, \* its locals
    zero,             \* what descriptor 0 is
    stop,             \* the next step of stop_server
    client,           \* what each client has seen
    request,          \* what it has sent
    asked,            \* history: the question it encoded, or NULL
    received,         \* what it was sent back
    stops, failures   \* history: calls of stop_server, failures of accept

object == <<shared, m_exit, m_listen_socket>>
caller == <<stop, stops>>
kernel == <<socket, backlog, zero>>
locals == <<fd, current, question, answer, failures>>
ends == <<client, request, asked, received>>
vars == <<object, main, caller, kernel, thread, locals, ends>>

Objects == {"static", "start", "stop"}

\* The singleton is a static object: all its members are 0.
Init ==
    /\ shared \in BOOLEAN
    /\ m_exit = [o \in Objects |-> FALSE]
    /\ m_listen_socket = [o \in Objects |-> "zero"]
    /\ main = "start"
    /\ socket = "none"
    /\ backlog = << >>
    /\ thread = "none"
    /\ fd = "zero"
    /\ current = NULL
    /\ question = << >>
    /\ answer = << >>
    /\ zero = "stdin"
    /\ stop = "none"
    /\ client = [c \in Clients |-> "away"]
    /\ request = [c \in Clients |-> NULL]
    /\ asked = [c \in Clients |-> NULL]
    /\ received = [c \in Clients |-> NULL]
    /\ stops = 0
    /\ failures = 0

\* The object a call of g_HttpServer works on.
ThisOf(call) == IF call = "stop" /\ ~shared THEN "stop" ELSE "start"

\* What closing or shutting down a descriptor reaches.
Reached(d) ==
    IF d = "listen" THEN Range(backlog)
    ELSE IF zero = "client" THEN {current}
    ELSE {}

Cut(cs) ==
    [c \in Clients |->
        IF c \in cs /\ client[c] \in {"connected", "asked"} THEN "cut"
        ELSE client[c]]

-----------------------------------------------------------------------------
(* main() and start_server.                                                *)

\* Without SO_REUSEADDR the new socket is left open.
StartServer(fails) ==
    /\ main = "start"
    /\ m_exit' = [m_exit EXCEPT ![ThisOf("start")] = m_exit["static"]]
    /\ m_listen_socket' = [m_listen_socket EXCEPT ![ThisOf("start")] =
                             IF fails = "socket" THEN "invalid" ELSE "listen"]
    /\ socket' = CASE fails = "none" -> "listening"
                   [] fails = "setsockopt" -> "open"
                   [] OTHER -> "none"
    /\ main' = IF fails = "none" THEN "create" ELSE "failed"
    /\ UNCHANGED <<shared, caller, backlog, zero, thread, locals, ends>>

\* start_server returns 0 even if there is no thread.
CreateThread(created) ==
    /\ main = "create"
    /\ main' = "started"
    /\ thread' = IF created THEN "loop" ELSE "none"
    /\ UNCHANGED <<object, caller, kernel, locals, ends>>

-----------------------------------------------------------------------------
(* stop_server, called when start_server has returned.                     *)

\* The copy of the singleton, wherever the build puts it.
StopInstance ==
    /\ main \in {"started", "failed"}
    /\ stop = "none"
    /\ stops < MaxStops
    /\ m_exit' = [m_exit EXCEPT ![ThisOf("stop")] = m_exit["static"]]
    /\ m_listen_socket' =
          [m_listen_socket EXCEPT ![ThisOf("stop")] = m_listen_socket["static"]]
    /\ stops' = stops + 1
    /\ stop' = "exit"
    /\ UNCHANGED <<shared, main, kernel, thread, locals, ends>>

StopExit ==
    /\ main # "dead"
    /\ stop = "exit"
    /\ m_exit' = [m_exit EXCEPT ![ThisOf("stop")] = TRUE]
    /\ stop' = "shutdown"
    /\ UNCHANGED <<shared, m_listen_socket, main, stops, kernel, thread, locals,
                   ends>>

StopShutdown ==
    /\ main # "dead"
    /\ stop = "shutdown"
    /\ client' = Cut(Reached(m_listen_socket[ThisOf("stop")]))
    /\ stop' = "close"
    /\ UNCHANGED <<object, main, stops, kernel, thread, locals, request, asked,
                   received>>

StopClose ==
    /\ main # "dead"
    /\ stop = "close"
    /\ LET d == m_listen_socket[ThisOf("stop")]
       IN  /\ client' = Cut(Reached(d))
           /\ socket' = IF d = "listen" THEN "none" ELSE socket
           /\ backlog' = IF d = "listen" THEN << >> ELSE backlog
           /\ zero' = IF d = "zero" THEN "none" ELSE zero
    /\ stop' = "none"
    /\ UNCHANGED <<object, main, stops, thread, locals, request, asked,
                   received>>

-----------------------------------------------------------------------------
(* http_server_thread_aid.                                                 *)

\* while(false==m_exit), and the argument of accept.
Loop ==
    /\ thread = "loop"
    /\ thread' = IF m_exit[ThisOf("start")] THEN "ended" ELSE "accept"
    /\ fd' = m_listen_socket[ThisOf("start")]
    /\ UNCHANGED <<object, main, caller, kernel, current, question, answer,
                   failures, ends>>

\* Mutant: answer is declared outside the loop.
AcceptKeepsAnswer ==
    /\ thread = "accept"
    /\ fd = "listen"
    /\ backlog # << >>
    /\ current' = Head(backlog)
    /\ backlog' = Tail(backlog)
    /\ zero' = IF zero = "none" THEN "client" ELSE zero
    /\ question' = << >>
    /\ thread' = "recv"
    /\ UNCHANGED <<object, main, caller, socket, fd, answer, failures, ends>>

\* A descriptor that is free is given out again.
Accept ==
    /\ thread = "accept"
    /\ fd = "listen"
    /\ backlog # << >>
    /\ current' = Head(backlog)
    /\ backlog' = Tail(backlog)
    /\ zero' = IF zero = "none" THEN "client" ELSE zero
    /\ question' = << >>
    /\ answer' = << >>
    /\ thread' = "recv"
    /\ UNCHANGED <<object, main, caller, socket, fd, failures, ends>>

\* Mutant: the loop does not start again.
AcceptFailsServed ==
    /\ thread = "accept"
    /\ fd = "zero" \/ failures < MaxFailures
    /\ failures' = failures + 1
    /\ question' = << >>
    /\ answer' = << >>
    /\ thread' = "recv"
    /\ UNCHANGED <<object, main, caller, kernel, fd, current, ends>>

\* Descriptor 0 is no listening socket; any other call may fail for want of
\* resources.
AcceptFails ==
    /\ thread = "accept"
    /\ IF fd = "listen" /\ socket = "listening"
       THEN failures < MaxFailures /\ failures' = failures + 1
       ELSE UNCHANGED failures
    /\ thread' = "loop"
    /\ UNCHANGED <<object, main, caller, kernel, fd, current, question, answer,
                   ends>>

\* A request can be read, also after the client has hung up.
Arrived ==
    /\ thread = "recv"
    /\ client[current] \in {"asked", "gone"}
    /\ request[current] # NULL

\* What is between the two texts that strstr finds.
Recv ==
    /\ Arrived
    /\ request[current] # NoSearch
    /\ question' = url_decode(request[current])
    /\ thread' = "search"
    /\ UNCHANGED <<object, main, caller, kernel, fd, current, answer, failures,
                   ends>>

\* One of them is not there, which nothing checks.  The uninitialized rest of
\* the buffer may still hold both, of another request: any question is asked.
RecvOther ==
    /\ Arrived
    /\ request[current] = NoSearch
    /\ question' \in Questions \cup {<< >>}
    /\ thread' = "search"
    /\ UNCHANGED <<object, main, caller, kernel, fd, current, answer, failures,
                   ends>>

\* Mutant: a recv that returns 0 is tried again.
RecvNothingWaits ==
    /\ thread = "recv"
    /\ client[current] = "cut"
    /\ thread' = "search"
    /\ UNCHANGED <<object, main, caller, kernel, locals, ends>>

\* Nothing to read any more: the empty question is asked all the same.
RecvNothing ==
    /\ thread = "recv"
    /\ client[current] \in {"gone", "cut"}
    /\ thread' = "search"
    /\ UNCHANGED <<object, main, caller, kernel, locals, ends>>

SearchWords ==
    /\ thread = "search"
    /\ answer' = answer \o Reply(question)
    /\ thread' = "send"
    /\ UNCHANGED <<object, main, caller, kernel, fd, current, question, failures,
                   ends>>

\* What send returns is not looked at.
Send ==
    /\ thread = "send"
    /\ received' = IF client[current] = "asked"
                   THEN [received EXCEPT ![current] = answer]
                   ELSE received
    /\ thread' = "close"
    /\ UNCHANGED <<object, main, caller, kernel, locals, client, request, asked>>

\* Mutant: whoever has not been answered.
BrokenOrAsked == client[current] \in {"gone", "cut", "asked"}

\* The other end has reset the connection, or stop_server has shut it down
\* and not yet closed it.
Broken ==
    \/ client[current] = "gone"
    \/ client[current] = "cut" /\ zero = "client"

\* The process ends, and all its sockets are closed.
Die ==
    /\ thread' = "dead"
    /\ main' = "dead"
    /\ socket' = "none"
    /\ backlog' = << >>
    /\ client' = Cut(Clients)
    /\ UNCHANGED <<object, caller, zero, locals, request, asked, received>>

\* SIGPIPE is not ignored.
SendKills == thread = "send" /\ Broken /\ Die

\* Or strncpy copies from near NULL, or more than there is room for.
RecvKills == Arrived /\ request[current] = NoSearch /\ Die

Close ==
    /\ thread = "close"
    /\ client' = [client EXCEPT ![current] =
                    IF @ = "asked" THEN "answered" ELSE @]
    /\ zero' = IF zero = "client" THEN "none" ELSE zero
    /\ current' = NULL
    /\ thread' = "loop"
    /\ UNCHANGED <<object, main, caller, socket, backlog, fd, question, answer,
                   failures, request, asked, received>>

-----------------------------------------------------------------------------
(* Clients.                                                                *)

Connect(c) ==
    /\ client[c] = "away"
    /\ socket = "listening"
    /\ client' = [client EXCEPT ![c] = "connected"]
    /\ backlog' = Append(backlog, c)
    /\ UNCHANGED <<object, main, caller, socket, zero, thread, locals, request,
                   asked, received>>

\* Its question q and how it writes it, or another request.
Ask(c, q, r) ==
    /\ client[c] = "connected"
    /\ client' = [client EXCEPT ![c] = "asked"]
    /\ request' = [request EXCEPT ![c] = r]
    /\ asked' = [asked EXCEPT ![c] = q]
    /\ UNCHANGED <<object, main, caller, kernel, thread, locals, received>>

HangUp(c) ==
    /\ client[c] \in {"connected", "asked"}
    /\ client' = [client EXCEPT ![c] = "gone"]
    /\ UNCHANGED <<object, main, caller, kernel, thread, locals, request, asked,
                   received>>

-----------------------------------------------------------------------------
Asks(c) ==
    \/ \E q \in Questions : \E r \in {url_encode(q), lower_encode(q)} : Ask(c, q, r)
    \/ Ask(c, NULL, NoSearch)

Start ==
    \/ \E f \in {"none", "socket", "setsockopt", "bind", "listen"} : StartServer(f)
    \/ \E created \in BOOLEAN : CreateThread(created)

StopServer == StopInstance \/ StopExit \/ StopShutdown \/ StopClose

Thread ==
    \/ Loop \/ Accept \/ AcceptFails
    \/ Recv \/ RecvOther \/ RecvKills \/ RecvNothing
    \/ SearchWords \/ Send \/ SendKills \/ Close

Next ==
    \/ Start
    \/ StopServer
    \/ Thread
    \/ \E c \in Clients : Connect(c) \/ Asks(c) \/ HangUp(c)

\* main() and the thread run on; who has connected asks or hangs up.
Fairness ==
    /\ WF_vars(Start)
    /\ WF_vars(StopExit \/ StopShutdown \/ StopClose)
    /\ WF_vars(Thread)
    /\ \A c \in Clients : WF_vars((Asks(c) \/ HangUp(c)) /\ client[c] = "connected")

Spec == Init /\ [][Next]_vars /\ Fairness

-----------------------------------------------------------------------------
(* Properties.                                                             *)

Serving == {"recv", "search", "send", "close"}

\* The server, its thread and its clients are in one of their states.
TypeOK ==
    /\ shared \in BOOLEAN
    /\ m_exit \in [Objects -> BOOLEAN]
    /\ m_listen_socket \in [Objects -> {"zero", "listen", "invalid"}]
    /\ main \in {"start", "create", "started", "failed", "dead"}
    /\ socket \in {"none", "open", "listening"}
    /\ backlog \in Seq(Clients)
    /\ thread \in {"none", "loop", "accept", "ended", "dead"} \cup Serving
    /\ fd \in {"zero", "listen", "invalid"}
    /\ IF thread \in Serving THEN current \in Clients
       ELSE current \in Clients \cup {NULL}
    /\ zero \in {"stdin", "none", "client"}
    /\ stop \in {"none", "exit", "shutdown", "close"}
    /\ client \in [Clients -> {"away", "connected", "asked", "answered", "cut",
                               "gone"}]

\* Who is answered gets the reply to the very question it encoded, whichever
\* digits it wrote, and never one of the client before.
AnswersBelong ==
    \A c \in Clients :
        client[c] = "answered" /\ asked[c] # NULL =>
            received[c] = Reply(asked[c])

\* A client is cut off only because another one hung up before it was
\* answered, because somebody sent what is no search, or because stop_server
\* was called once to free descriptor 0 and once more when a client had got it.
CutOnlyByOthers ==
    (\E c \in Clients : client[c] = "cut") =>
        \/ \E c \in Clients : client[c] = "gone" \/ request[c] = NoSearch
        \/ stops > 1

\* Every question is answered in the end, if there is a thread that goes on,
\* though clients in front of it take their time or hang up.
EveryoneServed ==
    \A c \in Clients :
        client[c] = "asked" ~>
            \/ client[c] # "asked"
            \/ main = "started" /\ thread \in {"none", "ended"}

=============================================================================
