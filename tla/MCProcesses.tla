---------------------------- MODULE MCProcesses ----------------------------
(* Components in which a process waits for what another one does: create    *)
(* and its host, a call and its server, the live view and the log. Each is  *)
(* on its own and fair: `part` says which of them goes through its steps    *)
(* while the others stay as they begin.                                     *)
EXTENDS CreateHandshake, RpcTransport, LiveView

VARIABLE part

CreateOnly(A) == part = "create" /\ A /\ UNCHANGED <<part, transportVars, allVars>>
RpcOnly(A) == part = "rpc" /\ A /\ UNCHANGED <<part, vars, allVars>>
ViewOnly(A) == part = "view" /\ A /\ UNCHANGED <<part, vars, transportVars>>
partVars == <<part, vars, transportVars, allVars>>

PartInit ==
  /\ part \in {"create", "rpc", "view"} /\ Init /\ TransportInit /\ ViewInit
  /\ part # "create" => windows
  /\ part # "rpc" => root = "unsafe" /\ hostPath = "old"

PartNext == CreateOnly(Next) \/ RpcOnly(TransportNext) \/ ViewOnly(ViewNext)

\* The Fairness of each module, for the component that goes.
PartFair ==
  /\ WF_partVars(CreateOnly(CreateStep)) /\ WF_partVars(CreateOnly(HostStep))
  /\ WF_partVars(CreateOnly(HandleSigterm))
  /\ WF_partVars(RpcOnly(HostSteps)) /\ WF_partVars(RpcOnly(Tick))
  /\ \A c \in Clients : /\ WF_partVars(RpcOnly(ClientSteps(c)))
                        /\ WF_partVars(RpcOnly(ServerSteps(c)))
  /\ WF_partVars(ViewOnly(follow # <<>> /\ GoesOn(Len(follow))))

PartSpec == PartInit /\ [][PartNext]_partVars /\ PartFair
=============================================================================
