---------------------------- MODULE SlaveClient ----------------------------
(***************************************************************************)
(* The device side (iotc_slave/abel/client): a program that connects to    *)
(* the master, sends its report every three seconds from a detached thread *)
(* and waits for commands in an epoll loop of its own.  Peer and kernel    *)
(* are the environment: two buffers, the end of the stream, a reset, and   *)
(* the edge epoll has not yet reported.                                    *)
(***************************************************************************)
EXTENDS Naturals, FiniteSets

CONSTANTS RxCap,     \* commands that fit into the receive buffer
          TxCap,     \* reports that fit into the send buffer
          RecvCap    \* commands that fit into buf, the BUFSIZE bytes of one recv

ASSUME CapsAssumption == {RxCap, TxCap, RecvCap} \subseteq Nat \ {0}

VARIABLES main,      \* where main stands; "blocked": inside recv with nothing to read
          failed,    \* a call of the set-up failed
          report,    \* ev.events as epoll_wait returned it
          flag,      \* Thread.flag
          sender,    \* the detached thread: "off" was never created, "done" has returned
          rx, tx,    \* commands not read, reports not acknowledged
          peer,      \* "none" before connect, then "open", then "closed"
          fin, reset,\* the stream has ended, the connection is gone
          err,       \* the error of the reset has not been fetched by a call
          edge,      \* epoll has something to report
          passed     \* history: unread commands were reported and not read

net == <<rx, tx, peer, fin, reset, err>>
vars == <<main, failed, report, flag, sender, edge, passed, net>>

Init == /\ main = "connect" /\ sender = "off" /\ peer = "none"
        /\ rx = 0 /\ tx = 0
        /\ report = {} /\ flag = FALSE
        /\ failed = FALSE /\ fin = FALSE /\ reset = FALSE
        /\ err = FALSE /\ edge = FALSE /\ passed = FALSE

-----------------------------------------------------------------------------
(* The set-up. *)

\* Whatever fails ends the program; its descriptors and threads go with it.
GiveUp == /\ main' = "ended"
          /\ failed' = TRUE
          /\ sender' = IF sender = "off" THEN "off" ELSE "done"
          /\ UNCHANGED <<report, flag, edge, passed, net>>

\* ClientSockInit: socket, the address of the interface and connect.
Connect == /\ main = "connect"
           /\ \/ /\ main' = "create"
                 /\ peer' = "open"
                 /\ UNCHANGED <<failed, report, flag, sender, edge, passed,
                                rx, tx, fin, reset, err>>
              \/ GiveUp

\* Mistake to be caught: the flag is set after pthread_create, which is too late.
FlagAfterCreate == FALSE

\* What th->flag holds when the thread first reads it.
FlagSet == TRUE

\* MsgSendThreadInit.  pthread_create reports an error by a positive number,
\* which DetachedThreadInit compares with -1: it takes it for success.
CreateSender == /\ main = "create"
                /\ main' = "add"
                /\ flag' = FlagSet
                /\ sender' \in {"off", "test"}
                /\ UNCHANGED <<failed, report, edge, passed, net>>

\* epoll_create and epoll_ctl; a socket that is ready when added is reported.
AddToEpoll == /\ main = "add"
              /\ \/ /\ main' = "wait"
                    /\ edge' = TRUE
                    /\ UNCHANGED <<failed, report, flag, sender, passed, net>>
                 \/ GiveUp

-----------------------------------------------------------------------------
(* The epoll loop. *)

\* What the kernel reports of the socket.  A reset shuts both directions.
Mask == {m \in {"IN", "OUT", "ERR", "HUP"} :
            \/ m = "IN"  /\ (rx > 0 \/ fin \/ reset)
            \/ m = "OUT" /\ (tx < TxCap \/ reset)
            \/ m = "ERR" /\ err
            \/ m = "HUP" /\ reset}

\* Edge-triggered: one report per edge, with all that holds by then.
EpollWait == /\ main = "wait" /\ edge
             /\ edge' = FALSE
             /\ report' = Mask
             /\ main' = IF Mask = {} THEN "wait" ELSE "handle"
             /\ UNCHANGED <<failed, flag, sender, passed, net>>

IsDisconnect(r) == r \cap {"ERR", "HUP"} # {}

\* Mistake to be caught: only a report without data counts as writable.
OutIgnored(r) == FALSE

IsWritable(r) == "OUT" \in r

\* goto err: both descriptors are closed and main returns.
Leave == /\ main = "handle" /\ IsDisconnect(report)
         /\ main' = "ended"
         /\ sender' = IF sender = "off" THEN "off" ELSE "done"
         /\ UNCHANGED <<failed, report, flag, edge, passed, net>>

\* The branch for EPOLLOUT only prints, also when there is something to read.
PassOver == /\ main = "handle" /\ ~IsDisconnect(report) /\ IsWritable(report)
            /\ main' = "wait"
            /\ passed' = ("IN" \in report)
            /\ UNCHANGED <<failed, report, flag, sender, edge, net>>

\* What one recv takes.
Taken == IF rx < RecvCap THEN rx ELSE RecvCap

\* One recv, whose result nobody looks at.  It blocks when there is nothing.
Read == /\ main = "handle" /\ ~IsDisconnect(report) /\ ~IsWritable(report)
        /\ main' = IF rx = 0 /\ ~fin /\ ~reset THEN "blocked" ELSE "wait"
        /\ rx' = rx - Taken
        /\ err' = (err /\ rx > 0)
        /\ passed' = (rx > RecvCap)
        /\ UNCHANGED <<failed, report, flag, sender, edge, tx, peer, fin, reset>>

-----------------------------------------------------------------------------
(* The detached thread. *)

\* while (T_TRUE == pth->flag)
TestFlag == /\ sender = "test"
            /\ sender' = IF flag THEN "send" ELSE "done"
            /\ UNCHANGED <<main, failed, report, flag, edge, passed, net>>

\* The report goes into the send buffer; a full one blocks the thread.
Send == /\ sender = "send" /\ ~reset /\ tx < TxCap
        /\ tx' = tx + 1
        /\ sender' = "sleep"
        /\ UNCHANGED <<main, failed, report, flag, edge, passed, rx, peer, fin, reset, err>>

\* The first call after a reset fetches its error, which MsgSend prints.  After
\* the end of the stream the error is EPIPE, and so is that of every later call:
\* SIGPIPE ends the process.
SendFails == /\ sender = "send" /\ reset
             /\ err' = FALSE
             /\ IF err /\ ~fin
                THEN sender' = "sleep" /\ main' = main
                ELSE sender' = "done" /\ main' = "ended"
             /\ UNCHANGED <<failed, report, flag, edge, passed, rx, tx, peer, fin, reset>>

\* sleep(3)
Wake == /\ sender = "sleep"
        /\ sender' = "test"
        /\ UNCHANGED <<main, failed, report, flag, edge, passed, net>>

-----------------------------------------------------------------------------
(* The master and the network. *)

Command == /\ peer = "open" /\ ~reset /\ rx < RxCap
           /\ rx' = rx + 1
           /\ edge' = TRUE
           /\ UNCHANGED <<main, failed, report, flag, sender, passed, tx, peer, fin, reset, err>>

\* epoll hears of room in the send buffer only after it was full.
Acknowledge == /\ peer = "open" /\ ~reset /\ tx > 0
               /\ tx' = tx - 1
               /\ edge' = (edge \/ tx = TxCap)
               /\ UNCHANGED <<main, failed, report, flag, sender, passed,
                              rx, peer, fin, reset, err>>

\* The master closes its socket and the stream ends.
Close == /\ peer = "open" /\ ~reset
         /\ peer' = "closed"
         /\ fin' = TRUE
         /\ edge' = TRUE
         /\ UNCHANGED <<main, failed, report, flag, sender, passed, rx, tx, reset, err>>

\* A closed socket answers a report with a reset; so does a socket closed
\* before it was read to its end, and a connection that times out is one, too.
ResetConnection == /\ peer = "open" \/ (peer = "closed" /\ tx > 0)
                   /\ ~reset
                   /\ peer' = "closed"
                   /\ reset' = TRUE /\ err' = TRUE /\ tx' = 0
                   /\ edge' = TRUE
                   /\ UNCHANGED <<main, failed, report, flag, sender, passed, rx, fin>>

-----------------------------------------------------------------------------
Main == Connect \/ CreateSender \/ AddToEpoll \/ EpollWait \/ Leave \/ PassOver \/ Read
Sender == TestFlag \/ Send \/ SendFails \/ Wake
Environment == Command \/ Acknowledge \/ Close \/ ResetConnection

Next == Main \/ Sender \/ (main # "ended" /\ Environment)

Spec == Init /\ [][Next]_vars

\* Both threads run.  A report that reaches a closed socket is answered, or
\* gives up; nothing else is expected of the network.
FairSpec == /\ Spec
            /\ WF_vars(Main) /\ WF_vars(Sender)
            /\ WF_vars(main # "ended" /\ peer = "closed" /\ ResetConnection)

-----------------------------------------------------------------------------
TypeOK == /\ main \in {"connect", "create", "add", "wait", "handle", "blocked", "ended"}
          /\ sender \in {"off", "test", "send", "sleep", "done"}
          /\ report \subseteq {"IN", "OUT", "ERR", "HUP"}
          /\ rx \in 0..RxCap /\ tx \in 0..TxCap
          /\ peer \in {"none", "open", "closed"}
          /\ {flag, failed, fin, reset, err, edge, passed} \subseteq BOOLEAN

\* main is never stuck in recv: the socket is a blocking one, and what a report
\* says may have changed by the time it is handled (socket_client.c:331).
NeverBlocks == main # "blocked"

\* The program ends only because the set-up failed or the master is gone; room
\* in the send buffer, or a command, never ends it (socket_client.c:320).
EndsOnlyWithServer == main = "ended" => failed \/ peer = "closed"

\* Once the master is gone the program ends.  It relies on the thread that
\* sends: main never sees the end of a stream, since it reads only while the
\* send buffer is full, so a report must meet the closed socket first.
EndsWithServer == (peer = "closed" /\ sender # "off") ~> (main = "ended")

\* A command is read unless it was reported while the send buffer had room, or
\* lay behind the bytes of one recv (socket_client.c:328 and :334).
CommandsRead == (rx > 0) ~> (rx = 0 \/ passed \/ main = "ended")
=============================================================================
