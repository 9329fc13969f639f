----------------------------- MODULE MCServices -----------------------------
(***************************************************************************)
(* Instances of two components that talk to other programs: the native API *)
(* with its dump thread, and what the server asks of its client.  They do  *)
(* not read each other's state: a behaviour is a behaviour of one of them, *)
(* its part, and the other stays where it starts.                          *)
(***************************************************************************)
EXTENDS NativeApi, Outbound, TLC

VARIABLE part

ServicesInit ==
  \/ part = "native" /\ Init
     /\ OutboundInit /\ caps = {} /\ \A g \in Groups : options[g] = CHOOSE v \in Values : TRUE
  \/ part = "client" /\ OutboundInit
     /\ Init /\ binary = (CHOOSE b \in Binaries : TRUE) /\ surface = (CHOOSE s \in Surfaces : TRUE)

ServicesNext ==
  /\ part' = part
  /\ \/ part = "native" /\ Next /\ UNCHANGED outboundVars
     \/ part = "client" /\ OutboundNext /\ UNCHANGED vars

ServicesSpec == ServicesInit /\ [][ServicesNext]_<<part, vars, outboundVars>>
=============================================================================
