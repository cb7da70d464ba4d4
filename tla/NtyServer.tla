------------------------------ MODULE NtyServer ------------------------------
(***************************************************************************)
(* The echo server of 2.3.1 (sample/nty_server.c) on the scheduler of       *)
(* NtyCo: one coroutine per port accepts connections, one per connection    *)
(* sends back what it receives.  A coroutine's step goes from one system    *)
(* call to the next; clients and kernel act in between.  Only the number    *)
(* of bytes counts; a message is shorter than the 1024 bytes of buf and     *)
(* holds no zero byte.                                                      *)
(***************************************************************************)
EXTENDS NtyCo

CONSTANTS
  Servers,    \* coroutines main creates, one per port
  ListenFd,   \* server -> the fd of its listening socket
  Clients,
  Port,       \* client -> the server coroutine it connects to
  FdLimits,   \* how many connections may be open: one is chosen per run
  MaxBytes,   \* client -> bytes it sends at most
  SendBuffer  \* bytes the kernel takes before the client reads

VARIABLES
  cli_fd,   \* server -> its local variable cli_fd
  owner,    \* reader -> the server whose variable its argument points to
  meant,    \* reader -> the fd accept returned just before it was created
  unsent,   \* reader -> bytes of buf that nty_send has still to send
  some,     \* reader -> nty_send has sent some of them
  file,     \* fd -> the client it is connected to, or NULL
  peer,     \* client -> "new", "backlog", "open", "shut", "reset", "gone"
  err,      \* client -> the reset has not been reported to the server yet
  input,    \* client -> bytes the kernel holds for the server
  output,   \* client -> bytes the kernel holds for the client
  sent,     \* client -> bytes it has sent
  got,      \* client -> bytes it has received
  fdlimit   \* connections the process may have open

readerVars == <<owner, meant, unsent, some>>
kernelVars == <<file, peer, err, input, output, sent, got, fdlimit>>
serverVars == <<schedVars, cli_fd, readerVars, kernelVars>>

ConnFds == Fds \ {ListenFd[s] : s \in Servers}
Polite == {}

ASSUME ServerAssumption ==
  /\ Servers \subseteq Coroutines /\ IsFiniteSet(Servers)
  /\ ListenFd \in [Servers -> Fds] /\ IsInjective(ListenFd)
  /\ IsFiniteSet(Fds) /\ FdLimits \subseteq 0 .. Cardinality(ConnFds)
  /\ NULL \notin Clients /\ Port \in [Clients -> Servers]
  /\ MaxBytes \in [Clients -> Nat] /\ SendBuffer \in Nat \ {0}

INSTANCE TcpClients

Readers == Coroutines \ Servers

ServerInit ==
  /\ SchedulerInit(SetToSeq(Servers))
  /\ cli_fd = [s \in Servers |-> -1]
  /\ owner = [r \in Readers |-> NULL]
  /\ meant = [r \in Readers |-> -1]
  /\ unsent = [r \in Readers |-> 0]
  /\ some = [r \in Readers |-> FALSE]
  /\ TcpInit

-----------------------------------------------------------------------------
(* Clients and epoll_wait                                                  *)

ClientStep(c) ==
  /\ TcpStep(c)
  /\ UNCHANGED <<schedVars, cli_fd, readerVars>>

Backlog(s) == {c \in Clients : peer[c] = "backlog" /\ Port[c] = s}

Happens(f) ==
  IF f \in ConnFds
  THEN /\ file[f] # NULL
       /\ IF pc[waiting[f]] = "resend" THEN Writable(file[f]) ELSE Readable(file[f])
  ELSE Backlog(waiting[f]) # {}

HangUp(f) == f \in ConnFds /\ peer[file[f]] = "reset"

ServerPoll ==
  /\ Poll({<<f, HangUp(f)>> : f \in {g \in epoll : Happens(g)}})
  /\ UNCHANGED <<cli_fd, readerVars, kernelVars>>

-----------------------------------------------------------------------------
(* server                                                                  *)

At(co, place) == Runs(co) /\ ~Suspended(co) /\ pc[co] = place

\* nty_accept waits
ServerWaits(s, place) ==
  /\ At(s, place)
  /\ WaitFor(s, ListenFd[s], FALSE, "accept")
  /\ UNCHANGED <<cli_fd, readerVars, kernelVars>>

ServerBegins(s) == ServerWaits(s, "begin")

\* nty_socket fails
ServerFails(s) ==
  /\ At(s, "begin")
  /\ Exit(s, {})
  /\ UNCHANGED <<cli_fd, readerVars, kernelVars>>

\* accept gives a connection the lowest fd, or fails for want of one
Accepted(s) ==
  /\ At(s, "accept")
  /\ Backlog(s) # {}
  /\ IF Cardinality(OpenFds) < fdlimit
     THEN \E c \in Backlog(s) :
            /\ file' = [file EXCEPT ![LowestFd] = c]
            /\ peer' = [peer EXCEPT ![c] = "open"]
            /\ cli_fd' = [cli_fd EXCEPT ![s] = LowestFd]
     ELSE cli_fd' = [cli_fd EXCEPT ![s] = -1] /\ UNCHANGED <<file, peer>>
  /\ pc' = [pc EXCEPT ![s] = "create"]
  /\ UNCHANGED <<ready, treeVars, loopVars, live, status, fd, readerVars,
                 err, input, output, sent, got, fdlimit>>

\* EAGAIN: nty_accept waits again
NothingToAccept(s) == Backlog(s) = {} /\ ServerWaits(s, "accept")

\* (variant) the next connection is accepted without waiting for an event
AfterCreate_Accepts(s) ==
  IF Backlog(s) # {} /\ Cardinality(OpenFds) < fdlimit THEN "accept" ELSE "loop"

AfterCreate(s) == "loop"

CreateReader(s) ==
  /\ At(s, "create")
  /\ Readers \ live # {}
  /\ LET r == CHOOSE r \in Readers : r \notin live IN
       /\ Create(s, r, AfterCreate(s))
       /\ owner' = [owner EXCEPT ![r] = s]
       /\ meant' = [meant EXCEPT ![r] = cli_fd[s]]
  /\ UNCHANGED <<cli_fd, unsent, some, kernelVars>>

ServerLoops(s) == ServerWaits(s, "loop")

ServerStep(s) ==
  \/ ServerBegins(s) \/ ServerFails(s) \/ Accepted(s) \/ NothingToAccept(s)
  \/ CreateReader(s) \/ ServerLoops(s)

-----------------------------------------------------------------------------
(* server_reader                                                           *)

\* *(int *) arg is read when the coroutine begins
ReaderBegins(r) ==
  /\ At(r, "begin")
  /\ WaitFor(r, cli_fd[owner[r]], FALSE, "recv")
  /\ UNCHANGED <<cli_fd, readerVars, kernelVars>>

ClientOf(r) == file[fd[r]]

Received(r) ==
  /\ At(r, "recv")
  /\ input[ClientOf(r)] > 0
  /\ unsent' = [unsent EXCEPT ![r] = input[ClientOf(r)]]
  /\ some' = [some EXCEPT ![r] = FALSE]
  /\ input' = [input EXCEPT ![ClientOf(r)] = 0]
  /\ pc' = [pc EXCEPT ![r] = "send"]
  /\ UNCHANGED <<ready, treeVars, loopVars, live, status, fd, cli_fd, owner, meant,
                 file, peer, err, output, sent, got, fdlimit>>

\* recv reports the reset, once: the loop goes on
RecvFails(r) ==
  /\ At(r, "recv")
  /\ input[ClientOf(r)] = 0
  /\ err[ClientOf(r)]
  /\ err' = [err EXCEPT ![ClientOf(r)] = FALSE]
  /\ WaitFor(r, fd[r], FALSE, "recv")
  /\ UNCHANGED <<cli_fd, readerVars, file, peer, input, output, sent, got, fdlimit>>

\* nty_close and the end of the coroutine
Closes(r) ==
  /\ Exit(r, {fd[r]})
  /\ file' = [file EXCEPT ![fd[r]] = NULL]
  /\ peer' = [peer EXCEPT ![ClientOf(r)] = IF @ = "reset" THEN @ ELSE "gone"]
  /\ err' = [err EXCEPT ![ClientOf(r)] = FALSE]
  /\ unsent' = [unsent EXCEPT ![r] = 0]
  /\ UNCHANGED <<cli_fd, owner, meant, some, input, output, sent, got, fdlimit>>

\* (variant) 0 from recv is taken for an error
EndOfInput_Ignored(r) ==
  /\ At(r, "recv")
  /\ input[ClientOf(r)] = 0
  /\ peer[ClientOf(r)] \in {"shut", "reset"} /\ ~err[ClientOf(r)]
  /\ WaitFor(r, fd[r], FALSE, "recv")
  /\ UNCHANGED <<cli_fd, readerVars, kernelVars>>

\* recv returns 0
EndOfInput(r) ==
  /\ At(r, "recv")
  /\ input[ClientOf(r)] = 0
  /\ peer[ClientOf(r)] \in {"shut", "reset"} /\ ~err[ClientOf(r)]
  /\ Closes(r)

Room(r) == SendBuffer - output[ClientOf(r)]

SentBytes(r) == IF unsent[r] < Room(r) THEN unsent[r] ELSE Room(r)

\* (variant) a partial send is taken for a complete one
Left_Dropped(r) == 0

Left(r) == unsent[r] - SentBytes(r)

\* send takes what the kernel has room for; nty_send waits for POLLOUT until
\* nothing is left
SendTakes(r) ==
  /\ At(r, "send") \/ At(r, "resend")
  /\ peer[ClientOf(r)] # "reset"
  /\ Room(r) > 0
  /\ output' = [output EXCEPT ![ClientOf(r)] = @ + SentBytes(r)]
  /\ unsent' = [unsent EXCEPT ![r] = Left(r)]
  /\ some' = [some EXCEPT ![r] = TRUE]
  /\ IF Left(r) > 0 THEN WaitFor(r, fd[r], TRUE, "resend")
                    ELSE WaitFor(r, fd[r], FALSE, "recv")
  /\ UNCHANGED <<cli_fd, owner, meant, file, peer, err, input, sent, got, fdlimit>>

\* the first send fails, for want of room or because of a reset: nty_send
\* waits for POLLOUT in both cases
FirstSendFails(r) ==
  /\ At(r, "send")
  /\ IF peer[ClientOf(r)] = "reset" THEN err[ClientOf(r)] ELSE Room(r) <= 0
  /\ err' = [err EXCEPT ![ClientOf(r)] = FALSE]
  /\ WaitFor(r, fd[r], TRUE, "resend")
  /\ UNCHANGED <<cli_fd, readerVars, file, peer, input, output, sent, got, fdlimit>>

\* a later one fails: nty_send returns what it has sent, or -1
ResendFails(r) ==
  /\ At(r, "resend")
  /\ peer[ClientOf(r)] = "reset" /\ err[ClientOf(r)]
  /\ some[r]
  /\ err' = [err EXCEPT ![ClientOf(r)] = FALSE]
  /\ unsent' = [unsent EXCEPT ![r] = 0]
  /\ WaitFor(r, fd[r], FALSE, "recv")
  /\ UNCHANGED <<cli_fd, owner, meant, some, file, peer, input, output, sent, got,
                 fdlimit>>

ResendFailsAtOnce(r) ==
  /\ At(r, "resend")
  /\ peer[ClientOf(r)] = "reset" /\ err[ClientOf(r)]
  /\ ~some[r]
  /\ Closes(r)

\* the reset was reported before: send raises SIGPIPE, which nobody handles
SigPipe(r) ==
  /\ At(r, "send") \/ At(r, "resend")
  /\ peer[ClientOf(r)] = "reset" /\ ~err[ClientOf(r)]
  /\ phase' = "killed"
  /\ UNCHANGED <<ready, treeVars, events, last, current, back, live, status, fd, pc,
                 cli_fd, readerVars, kernelVars>>

ReaderStep(r) ==
  \/ ReaderBegins(r) \/ Received(r) \/ RecvFails(r) \/ EndOfInput(r)
  \/ SendTakes(r) \/ FirstSendFails(r) \/ ResendFails(r) \/ ResendFailsAtOnce(r)
  \/ SigPipe(r)

-----------------------------------------------------------------------------

SchedulerStep ==
  /\ Scheduler \/ \E co \in Coroutines : Awake(co)
  /\ UNCHANGED <<cli_fd, readerVars, kernelVars>>

ProcessStep ==
  \/ SchedulerStep
  \/ ServerPoll
  \/ \E s \in Servers : ServerStep(s)
  \/ \E r \in Readers : ReaderStep(r)

ServerNext ==
  \/ ProcessStep
  \/ \E c \in Clients : ClientStep(c)
  \/ Down /\ UNCHANGED serverVars

\* The process runs whenever it can; a client reads what has arrived.
ServerSpec ==
  /\ ServerInit
  /\ [][ServerNext]_serverVars
  /\ WF_serverVars(ProcessStep)
  /\ \A c \in Clients : WF_serverVars(Receives(c) /\ UNCHANGED <<schedVars, cli_fd, readerVars>>)

-----------------------------------------------------------------------------
(* Correctness                                                             *)

\* A reader is given the address of a variable that the next accept writes
\* (nty_server.c:60 and 72): it must have read it by then.
ReadersGetTheirFd ==
  \A r \in Readers \cap live : pc[r] # "begin" => fd[r] = meant[r]

\* Every open connection has one reader, from accept to close.
OneReaderPerConnection ==
  ~Down => \A f \in OpenFds :
    Cardinality({r \in Readers \cap live : meant[r] = f})
    + Cardinality({s \in Servers : pc[s] = "create" /\ cli_fd[s] = f}) = 1

\* Accepting, creating and beginning never mix two connections up.
ConnectionsHaveReaders == ReadersGetTheirFd /\ OneReaderPerConnection

\* No byte is lost, doubled or sent to somebody else, however send divides the
\* messages (nty_socket.c:97-117).
EchoConserved ==
  \A c \in Clients : peer[c] # "reset" =>
    sent[c] = input[c] + output[c] + got[c]
              + SumFunctionOnSet(unsent, {r \in Readers \cap live :
                                   pc[r] # "begin" /\ fd[r] \in ConnFds /\ ClientOf(r) = c})

\* A client that does not reset gets back every byte.
EchoArrives ==
  \A c \in Clients :
    sent[c] > got[c] ~> (sent[c] = got[c] \/ peer[c] = "reset" \/ Down)

\* The fd of a client that left is closed (nty_server.c:30 and 35).
FdsComeBack ==
  \A c \in Clients :
    LET open == \E f \in ConnFds : file[f] = c
    IN open /\ peer[c] \in {"shut", "reset"} ~> ~open \/ Down
==============================================================================
