------------------------------ MODULE TcpClients ------------------------------
(***************************************************************************)
(* The kernel and the clients of an echo server, as its system calls see    *)
(* them: connections waiting in the backlog, fds, bytes under way in both   *)
(* directions, ends and resets.  External to the repository: the servers of *)
(* 2.1.1 to 2.3.1 fix what they use of it.  Only the number of bytes counts.*)
(***************************************************************************)
EXTENDS Integers, FiniteSets

CONSTANTS
  NULL,
  Clients,
  Polite,     \* clients that read every answer before they send more, and send
              \* no more at a time than the kernel takes
  ConnFds,    \* fds that connections may have
  FdLimits,   \* how many connections may be open: one is chosen per run
  MaxBytes,   \* client -> bytes it sends at most
  SendBuffer  \* bytes the kernel takes before the client reads

VARIABLES
  file,     \* fd -> the client it is connected to, or NULL
  peer,     \* client -> "new", "backlog", "open", "shut", "reset", or "gone"
            \* when the server closed its fd, "dropped" when it had no reason to
  err,      \* client -> the reset has not been reported to the server yet
  input,    \* client -> bytes the kernel holds for the server
  output,   \* client -> bytes the kernel holds for the client
  sent,     \* client -> bytes it has sent
  got,      \* client -> bytes it has received
  fdlimit   \* connections the process may have open

TcpInit ==
  /\ file = [f \in ConnFds |-> NULL]
  /\ peer = [c \in Clients |-> "new"]
  /\ err = [c \in Clients |-> FALSE]
  /\ input = [c \in Clients |-> 0]
  /\ output = [c \in Clients |-> 0]
  /\ sent = [c \in Clients |-> 0]
  /\ got = [c \in Clients |-> 0]
  /\ fdlimit \in FdLimits

OpenFds == {f \in ConnFds : file[f] # NULL}

\* accept gives a connection the lowest fd
LowestFd == CHOOSE f \in ConnFds \ OpenFds : \A g \in ConnFds \ OpenFds : f <= g

Connect(c) ==
  /\ peer[c] = "new"
  /\ peer' = [peer EXCEPT ![c] = "backlog"]
  /\ UNCHANGED <<file, err, input, output, sent, got, fdlimit>>

Sends(c) ==
  /\ peer[c] \in {"backlog", "open"}
  /\ \E n \in 1 .. MaxBytes[c] - sent[c] :
       /\ c \in Polite => sent[c] = got[c] /\ n <= SendBuffer
       /\ sent' = [sent EXCEPT ![c] = @ + n]
       /\ input' = [input EXCEPT ![c] = @ + n]
  /\ UNCHANGED <<file, peer, err, output, got, fdlimit>>

Receives(c) ==
  /\ output[c] > 0
  /\ got' = [got EXCEPT ![c] = @ + output[c]]
  /\ output' = [output EXCEPT ![c] = 0]
  /\ UNCHANGED <<file, peer, err, input, sent, fdlimit>>

\* it will send no more; it goes on receiving
Shuts(c) ==
  /\ peer[c] = "open"
  /\ peer' = [peer EXCEPT ![c] = "shut"]
  /\ UNCHANGED <<file, err, input, output, sent, got, fdlimit>>

Resets(c) ==
  /\ peer[c] \in {"open", "shut"}
  /\ \E f \in ConnFds : file[f] = c
  /\ peer' = [peer EXCEPT ![c] = "reset"]
  /\ err' = [err EXCEPT ![c] = TRUE]
  /\ output' = [output EXCEPT ![c] = 0]
  /\ UNCHANGED <<file, input, sent, got, fdlimit>>

\* the network gives a connection up before it was accepted
GivesUp(c) ==
  /\ peer[c] = "backlog"
  /\ peer' = [peer EXCEPT ![c] = "reset"]
  /\ input' = [input EXCEPT ![c] = 0]
  /\ UNCHANGED <<file, err, output, sent, got, fdlimit>>

TcpStep(c) ==
  Connect(c) \/ GivesUp(c) \/ Sends(c) \/ Receives(c) \/ Shuts(c) \/ Resets(c)

Readable(c) == input[c] > 0 \/ peer[c] \in {"shut", "reset"}
Writable(c) == output[c] < SendBuffer \/ peer[c] = "reset"
===============================================================================
