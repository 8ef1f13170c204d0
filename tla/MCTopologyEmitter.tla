------------------------ MODULE MCTopologyEmitter ------------------------
(***************************************************************************)
(* TopologyEmitter over the inventories of MCTopologyAssembler.  Two URL  *)
(* lists: an empty entry followed by two well-formed vCenters, and a      *)
(* single malformed entry.                                                 *)
(***************************************************************************)
EXTENDS TopologyEmitter, MCTopologyAssembler

MCUrlConfigs == {<<"unset", "ok", "ok">>, <<"badlen">>}

(* Host views of both families: cluster membership and cross references. *)
AllKinds == ClusterKinds \cup RefKinds
=============================================================================
