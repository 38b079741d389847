--------------------------- MODULE ListenerSocket ---------------------------
(***************************************************************************)
(* get_listener_socket (host.c): the addresses of getaddrinfo are tried    *)
(* one after the other until one can be bound; then listen.  Every call    *)
(* may fail.                                                               *)
(***************************************************************************)
EXTENDS Integers, FiniteSets

CONSTANTS
  Addresses,  \* bound: how many addresses getaddrinfo returns
  SocketFds   \* the descriptors socket may return

ASSUME ListenerAssumption ==
  Addresses \in Nat /\ SocketFds \subseteq Nat /\ IsFiniteSet(SocketFds)

VARIABLES
  curr,        \* the address in hand; behind the last one it is NULL
  listener_fd, \* the descriptor; -1 when socket has failed or not been called
  at_socket,   \* where the function is
  open,        \* the open descriptors
  bound,       \* the address each of them is bound to, 0 for none
  outcome      \* how it ends: "returned", "fatal", or "none" so far

lsVars == <<curr, listener_fd, at_socket, open, bound, outcome>>

Unset == -1

ListenerInit ==
  /\ curr = 1 /\ listener_fd = Unset /\ at_socket = "getaddrinfo"
  /\ open = {} /\ bound = [f \in SocketFds |-> 0] /\ outcome = "none"

Ends(how) == at_socket' = "end" /\ outcome' = how

getaddrinfo ==
  /\ at_socket = "getaddrinfo"
  /\ \/ at_socket' = "socket" /\ UNCHANGED outcome
     \/ Ends("fatal")
  /\ UNCHANGED <<curr, listener_fd, open, bound>>

\* socket fails: continue with the next address.
socket ==
  /\ at_socket = "socket" /\ curr <= Addresses
  /\ \/ /\ curr' = curr + 1 /\ listener_fd' = Unset
        /\ UNCHANGED <<open, at_socket>>
     \/ \E f \in SocketFds \ open :
          /\ listener_fd' = f /\ open' = open \cup {f}
          /\ at_socket' = "bind" /\ UNCHANGED curr
  /\ UNCHANGED <<bound, outcome>>

closes_Forgotten == UNCHANGED open          \* mutant: the descriptor stays open
closes           == open' = open \ {listener_fd}

bind ==
  /\ at_socket = "bind"
  /\ \/ /\ bound' = [bound EXCEPT ![listener_fd] = curr]
        /\ at_socket' = "listen" /\ UNCHANGED <<curr, open>>
     \/ /\ closes /\ curr' = curr + 1
        /\ at_socket' = "socket" /\ UNCHANGED bound
  /\ UNCHANGED <<listener_fd, outcome>>

no_address ==
  /\ at_socket = "socket" /\ curr > Addresses
  /\ Ends("fatal")
  /\ UNCHANGED <<curr, listener_fd, open, bound>>

listen ==
  /\ at_socket = "listen"
  /\ Ends("returned") \/ Ends("fatal")
  /\ UNCHANGED <<curr, listener_fd, open, bound>>

ListenerNext == getaddrinfo \/ socket \/ bind \/ no_address \/ listen

ListenerSpec == ListenerInit /\ [][ListenerNext]_lsVars

-----------------------------------------------------------------------------
(* Properties                                                              *)

\* However the attempts went, none leaves a descriptor behind: the one in hand
\* is the only one open, and the one the function returns is bound to the
\* address at which the loop stopped.
OneDescriptor ==
  /\ at_socket \in {"getaddrinfo", "socket"} => open = {}
  /\ at_socket \in {"bind", "listen"} => open = {listener_fd}
  /\ outcome = "returned" =>
       open = {listener_fd} /\ curr <= Addresses /\ bound[listener_fd] = curr

=============================================================================
