-------------------------------- MODULE Reactor --------------------------------
(***************************************************************************)
(* The event loops of 2.1.1, 2.1.2, 2.1.3, 2.1.4 and 2.2.1: a table with an *)
(* entry per fd, an epoll, and callbacks that the one thread runs to their  *)
(* end.  Init chooses the program:                                          *)
(*   "plain"      epoll_initial.c, recv and send in one go                  *)
(*   "mulcb"      epoll_reactor_mulcb.c, with blocking sockets              *)
(*   "singecb"    epoll_reactor_singecb.c, with a heartbeat                 *)
(*   "c1000k"     C1000Kserver.c                                            *)
(*   "http"       httpserver.c: n bytes ask for a header and a file that    *)
(*                have n bytes together                                     *)
(*   "websocket"  websocket_reactor.c: n bytes, handshake or frame, are     *)
(*                answered by n                                             *)
(* A message fits the buffer of its entry, and one recv takes what has      *)
(* arrived.  A step goes from one system call to the next.                  *)
(***************************************************************************)
EXTENDS TcpClients, FiniteSetsExt

CONSTANT Programs   \* the programs Init chooses from

VARIABLES
  prog,
  entry,   \* fd -> its entry in the table and its registration with epoll
  round,   \* fds whose event of the last epoll_wait is not handled yet
  at,      \* the fd whose callback runs, or NULL
  phase,   \* "poll", "round", "read", "write", "killed", "returned"
  done     \* bytes of the answer the running callback believes to have sent

loopVars == <<prog, entry, round, at, phase, done>>
kernelVars == <<file, peer, err, input, output, sent, got, fdlimit>>
reactorVars == <<loopVars, kernelVars>>

Listener == 0   \* stands for the listening fd among the events of a round

ASSUME ReactorAssumption ==
  /\ Programs \subseteq {"plain", "mulcb", "singecb", "c1000k", "http", "websocket"}
  /\ ConnFds \subseteq Nat \ {Listener}
  /\ IsFiniteSet(ConnFds)
  /\ NULL \notin ConnFds /\ NULL \notin Clients
  /\ FdLimits \subseteq 0 .. Cardinality(ConnFds)
  /\ MaxBytes \in [Clients -> Nat] /\ SendBuffer \in Nat \ {0}

Blocking == prog \in {"plain", "mulcb"}
Family == prog \in {"singecb", "c1000k", "http", "websocket"}

\* reg is what epoll holds for the fd: "closed" without an open file
Init ==
  /\ TcpInit
  /\ prog \in Programs
  /\ entry = [f \in ConnFds |->
       [reg |-> "closed", status |-> FALSE, want |-> "in", held |-> 0,
        machine |-> "handshake"]]
  /\ round = {}
  /\ at = NULL
  /\ phase = "poll"
  /\ done = 0

-----------------------------------------------------------------------------
(* nty_event_add, nty_event_del and close, on an entry                     *)

\* EPOLL_CTL_MOD or ADD as status says; epoll refuses the wrong one
Added(e, want) ==
  [e EXCEPT !.status = TRUE, !.want = want,
            !.reg = IF e.status = (@ \in {"in", "out"}) /\ @ # "closed"
                    THEN want ELSE @]

Deleted(e) ==
  IF e.status
  THEN [e EXCEPT !.status = FALSE, !.reg = IF @ = "closed" THEN @ ELSE "none"]
  ELSE e

Closed(e) == [e EXCEPT !.reg = "closed"]

\* nty_event_del, nty_event_set, nty_event_add; mulcb's reactor_set_event
Rearmed(e, want) == Added(IF Family THEN Deleted(e) ELSE e, want)

\* the server closes fd f; how tells whether the client had given a reason
CloseFile(f, how) ==
  /\ file' = [file EXCEPT ![f] = NULL]
  /\ peer' = [peer EXCEPT ![file[f]] = IF @ = "reset" THEN @ ELSE how]
  /\ err' = [err EXCEPT ![file[f]] = FALSE]

CallbackEnds == phase' = "round" /\ at' = NULL /\ done' = 0

\* (variant) the entry is taken out of epoll and the fd is forgotten
Finish_Forgets(f) ==
  /\ entry' = [entry EXCEPT ![f] = [Deleted(@) EXCEPT !.held = 0]]
  /\ CallbackEnds
  /\ UNCHANGED <<prog, round, file, peer, err>>

\* a callback gives the connection up
Finish(f) ==
  /\ entry' = [entry EXCEPT ![f] = Closed([Deleted(@) EXCEPT !.held = 0])]
  /\ CloseFile(f, "gone")
  /\ CallbackEnds
  /\ UNCHANGED <<prog, round>>

-----------------------------------------------------------------------------
(* The loop                                                                *)

Happens(f) ==
  \/ entry[f].reg = "in" /\ Readable(file[f])
  \/ entry[f].reg = "out" /\ Writable(file[f])

Backlog == {c \in Clients : peer[c] = "backlog"}

\* 60 seconds without an event end a connection, at the head of the loop
HeartbeatFails(f) ==
  /\ phase = "poll" /\ prog = "singecb"
  /\ entry[f].status
  /\ entry' = [entry EXCEPT ![f] = Deleted(Closed([@ EXCEPT !.held = 0]))]
  /\ CloseFile(f, "dropped")
  /\ UNCHANGED <<prog, round, at, phase, done, input, output, sent, got, fdlimit>>

\* epoll_wait returns after its timeout, too
EpollWait ==
  /\ phase = "poll"
  /\ round' = {f \in ConnFds : Happens(f)} \cup (IF Backlog # {} THEN {Listener} ELSE {})
  /\ phase' = "round"
  /\ UNCHANGED <<prog, entry, at, done, kernelVars>>

RoundEnds ==
  /\ phase = "round" /\ round = {}
  /\ phase' = "poll"
  /\ UNCHANGED <<prog, entry, round, at, done, kernelVars>>

\* the callback of an entry is the one for the events it wants
Dispatch(f) ==
  /\ phase = "round" /\ f \in round \ {Listener}
  /\ round' = round \ {f}
  /\ at' = f
  /\ phase' = IF entry[f].want = "in" THEN "read" ELSE "write"
  /\ UNCHANGED <<prog, entry, done, kernelVars>>

\* (variant) status is left as the fd's last connection left it
Fresh_KeepsStatus(e) == [e EXCEPT !.reg = "none"]

\* accept_cb of the websocket server sets status, where state_machine is meant
Fresh(e) ==
  [e EXCEPT !.reg = "none", !.status = IF prog = "websocket" THEN FALSE ELSE @]

Accept ==
  /\ phase = "round" /\ Listener \in round
  /\ Cardinality(OpenFds) < fdlimit
  /\ \E c \in Backlog :
       /\ file' = [file EXCEPT ![LowestFd] = c]
       /\ peer' = [peer EXCEPT ![c] = "open"]
       /\ entry' = [entry EXCEPT ![LowestFd] = Added(Fresh(@), "in")]
  /\ round' = round \ {Listener}
  /\ UNCHANGED <<prog, at, phase, done, err, input, output, sent, got, fdlimit>>

\* without an fd to give, accept fails: epoll_initial.c ends, the others go on
AcceptFails ==
  /\ phase = "round" /\ Listener \in round
  /\ Cardinality(OpenFds) >= fdlimit
  /\ round' = round \ {Listener}
  /\ phase' = IF prog = "plain" THEN "returned" ELSE phase
  /\ UNCHANGED <<prog, entry, at, done, kernelVars>>

-----------------------------------------------------------------------------
(* Reading                                                                 *)

Peer == file[at]
Reset == peer[Peer] = "reset"

ReadBegins == phase = "read" /\ prog # "websocket"

\* what recv took will be answered: at once, or when the fd is writable
Read ==
  /\ ReadBegins /\ input[Peer] > 0
  /\ input' = [input EXCEPT ![Peer] = 0]
  /\ entry' = [entry EXCEPT ![at] =
       [IF prog = "plain" THEN @ ELSE Rearmed(@, "out") EXCEPT !.held = input[Peer]]]
  /\ IF prog = "plain" THEN phase' = "write" /\ UNCHANGED <<at, done>> ELSE CallbackEnds
  /\ UNCHANGED <<prog, round, file, peer, err, output, sent, got, fdlimit>>

\* recv returns -1: the servers with blocking sockets do nothing
ReadFails ==
  /\ ReadBegins /\ input[Peer] = 0 /\ err[Peer]
  /\ IF Blocking
     THEN /\ err' = [err EXCEPT ![Peer] = FALSE]
          /\ CallbackEnds
          /\ UNCHANGED <<prog, entry, round, file, peer>>
     ELSE Finish(at)
  /\ UNCHANGED <<input, output, sent, got, fdlimit>>

\* recv returns 0
ReadEnd ==
  /\ ReadBegins /\ input[Peer] = 0 /\ ~err[Peer]
  /\ Finish(at)
  /\ UNCHANGED <<input, output, sent, got, fdlimit>>

\* The websocket server calls recv until it returns -1.  After the end of the
\* input it returns 0: the loop goes on for ever.
ReadMore ==
  /\ phase = "read" /\ prog = "websocket" /\ input[Peer] > 0
  /\ input' = [input EXCEPT ![Peer] = 0]
  /\ entry' = [entry EXCEPT ![at].held = @ + input[Peer]]
  /\ UNCHANGED <<prog, round, at, phase, done, file, peer, err, output, sent, got, fdlimit>>

ReadAll ==
  /\ phase = "read" /\ prog = "websocket"
  /\ input[Peer] = 0 /\ (peer[Peer] = "open" \/ err[Peer])

Spins ==
  /\ phase = "read" /\ prog = "websocket"
  /\ input[Peer] = 0 /\ peer[Peer] # "open" /\ ~err[Peer]

ReadZero == Spins /\ UNCHANGED reactorVars

\* nothing came before the error
ReadNothing ==
  /\ ReadAll /\ entry[at].held = 0
  /\ Finish(at)
  /\ UNCHANGED <<input, output, sent, got, fdlimit>>

\* websocket_request: a handshake, a frame, or after WS_END the bytes as they are
Requested(e) == [e EXCEPT !.machine = IF @ = "end" THEN @ ELSE "transmission"]

Request ==
  /\ ReadAll /\ entry[at].held > 0
  /\ entry' = [entry EXCEPT ![at] = Requested(Rearmed(@, "out"))]
  /\ err' = [err EXCEPT ![Peer] = FALSE]
  /\ CallbackEnds
  /\ UNCHANGED <<prog, round, file, peer, input, output, sent, got, fdlimit>>

\* a frame with opcode 8: the fd is closed, and added to epoll again
CloseFrame ==
  /\ ReadAll /\ entry[at].held > 0 /\ entry[at].machine = "transmission"
  /\ entry' = [entry EXCEPT ![at] =
       [Added(Closed(Deleted(@)), "out") EXCEPT !.machine = "end", !.held = 0]]
  /\ CloseFile(at, "dropped")
  /\ CallbackEnds
  /\ UNCHANGED <<prog, round, input, output, sent, got, fdlimit>>

-----------------------------------------------------------------------------
(* Writing                                                                 *)

Room == SendBuffer - output[Peer]
Rest == entry[at].held - done

\* What the callback may ask to be sent: all that is left, but the http server
\* sends its header alone.  A 404 and an empty file are no more than the header.
Asked == IF prog = "http" /\ done = 0 THEN 1 .. Rest ELSE {Rest}

\* the part of n bytes that the kernel takes
Piece(n) == IF n < Room THEN n ELSE Room

\* a blocking send and the loop around sendfile go on until all is sent
Insists == Blocking \/ (prog = "http" /\ done > 0)

\* (variant) every part is taken for the whole
Counted_AsWhole(n) == n

\* what the server believes to have sent: without insisting, the whole
Counted(n) == IF Insists THEN Piece(n) ELSE n

\* (variant) the entry keeps waiting for room
Answered_StaysOut(e) == [e EXCEPT !.held = 0]

\* the callback's end after its answer
Answered(e) == [IF prog = "plain" THEN e ELSE Rearmed(e, "in") EXCEPT !.held = 0]

Write ==
  /\ phase = "write" /\ ~Reset /\ Room > 0
  /\ \E n \in Asked :
       /\ output' = [output EXCEPT ![Peer] = @ + Piece(n)]
       /\ IF Counted(n) = Rest
          THEN /\ entry' = [entry EXCEPT ![at] = Answered(@)]
               /\ CallbackEnds
          ELSE /\ done' = done + Counted(n)
               /\ UNCHANGED <<entry, at, phase>>
  /\ UNCHANGED <<prog, round, file, peer, err, input, sent, got, fdlimit>>

\* send fails: mulcb waits to send again (its blocking send reports the bytes
\* sent before the reset first), the loop around sendfile goes on, the result
\* is not looked at, or the connection is closed
WriteFails ==
  /\ phase = "write" /\ Reset /\ err[Peer]
  /\ \/ /\ Blocking
        /\ err' = [err EXCEPT ![Peer] = done > 0]
        /\ entry' = [entry EXCEPT ![at] =
             IF prog = "plain" THEN Answered(@) ELSE Rearmed(@, "out")]
        /\ CallbackEnds
        /\ UNCHANGED <<prog, round, file, peer>>
     \/ /\ prog = "http" /\ done > 0
        /\ err' = [err EXCEPT ![Peer] = FALSE]
        /\ UNCHANGED <<loopVars, file, peer>>
     \/ /\ Family /\ done = 0
        /\ Finish(at)
  /\ UNCHANGED <<input, output, sent, got, fdlimit>>

\* the reset was reported before: send raises SIGPIPE, which nobody handles
SigPipe ==
  /\ phase = "write" /\ Reset /\ ~err[Peer]
  /\ phase' = "killed"
  /\ UNCHANGED <<prog, entry, round, at, done, kernelVars>>

-----------------------------------------------------------------------------

Down == phase \in {"killed", "returned"}

ServerNext ==
  \/ \E f \in ConnFds : Dispatch(f)
  \/ EpollWait \/ RoundEnds \/ Accept \/ AcceptFails
  \/ Read \/ ReadFails \/ ReadEnd
  \/ ReadMore \/ ReadZero \/ ReadNothing \/ Request \/ CloseFrame
  \/ Write \/ WriteFails \/ SigPipe

ClientNext(c) ==
  /\ Connect(c) \/ Sends(c) \/ Receives(c) \/ Shuts(c) \/ Resets(c)
  /\ UNCHANGED loopVars

Next ==
  \/ ServerNext
  \/ \E f \in ConnFds : HeartbeatFails(f)
  \/ \E c \in Clients : ClientNext(c)
  \/ Down /\ UNCHANGED reactorVars

\* The process runs whenever it can; a client reads what has arrived.
Spec ==
  /\ Init
  /\ [][Next]_reactorVars
  /\ WF_reactorVars(ServerNext)
  /\ \A c \in Clients : WF_reactorVars(Receives(c) /\ UNCHANGED loopVars)

-----------------------------------------------------------------------------
(* Correctness                                                             *)

\* Table and epoll agree whenever no callback runs: an open connection is
\* registered, for the events its entry waits for, and no wrong EPOLL_CTL
\* operation has lost one (nty_event_add takes the operation from status).
EntriesMatchEpoll ==
  \A f \in ConnFds \ {at} :
    /\ (entry[f].reg = "closed") = (file[f] = NULL)
    /\ file[f] # NULL => entry[f].status /\ entry[f].reg = entry[f].want
    /\ file[f] = NULL => ~entry[f].status \/ prog = "websocket"

\* Nobody but the eager clients of a nonblocking server, which takes a part sent
\* for the whole, loses or doubles a byte: what was sent is under way, in the
\* table, or back.
Reliable(c) == Blocking \/ c \in Polite

AnswersConserved ==
  \A c \in Clients : Reliable(c) /\ peer[c] \in {"open", "shut"} =>
    sent[c] = input[c] + output[c] + got[c]
              + MapThenSumSet(LAMBDA f : entry[f].held - (IF f = at THEN done ELSE 0),
                              {f \in ConnFds : file[f] = c})

\* An accepted client gets its answers whatever else the other sends, as long as
\* both read what arrives, unless it resets, the heartbeat or a close frame ends
\* it, or the server is down or spins.
AnswersArrive ==
  \A c \in Clients : Reliable(c) =>
    (peer[c] \in {"open", "shut"} /\ sent[c] > got[c] ~>
       sent[c] = got[c] \/ peer[c] \in {"reset", "dropped"} \/ Down \/ Spins)

\* The fd of a client that left is closed.
FdsComeBack ==
  \A c \in Clients :
    LET open == \E f \in ConnFds : file[f] = c
    IN open /\ peer[c] \in {"shut", "reset"} ~> ~open \/ Down \/ Spins
================================================================================
