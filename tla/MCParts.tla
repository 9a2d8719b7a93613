------------------------------ MODULE MCParts ------------------------------
(***************************************************************************)
(* The parts of hreq that keep a state of their own and share none with    *)
(* each other, for TLC: in a behaviour one of them moves, from each of its *)
(* initial states, and the others stay in one of theirs.  So the states    *)
(* that are checked are those of the parts, one after the other.           *)
(***************************************************************************)
EXTENDS Bandwidth, Runtime, MCRouting, StaticFiles, Message, LossyText

VARIABLE part  \* the part that moves

partsVars == <<part, bandwidthVars, runtimeVars, routingVars, staticVars, messageVars, lossyVars>>

\* Inside the file, none, and with an end that overflows.
MCRanges == {<<1, 1>>, <<2, 1>>, <<0, 7>>}

MCSizes == [e \in Encodings \cup {Binary} |-> IF e = Utf8 THEN 3 ELSE 2]

OthersStay(p) ==
    /\ p # "bandwidth" => UNCHANGED bandwidthVars
    /\ p # "runtime" => UNCHANGED runtimeVars
    /\ p # "routing" => UNCHANGED routingVars
    /\ p # "static" => UNCHANGED staticVars
    /\ p # "message" => UNCHANGED messageVars
    /\ p # "lossy" => UNCHANGED lossyVars
    /\ UNCHANGED part

PartsInit ==
    /\ part \in {"bandwidth", "runtime", "routing", "static", "message", "lossy"}
    /\ BandwidthInit /\ RuntimeInit /\ RoutingInit
    /\ MessageInit /\ (part # "message" => toServer)
    /\ StaticInit /\ (part # "static" => file.length = 0 /\ file.state = "file"
                                         /\ file.mtime = TicksPerSecond)
    /\ LossyInit /\ (part # "lossy" => input = <<>>)

PartsNext ==
    \/ part = "bandwidth" /\ BandwidthNext /\ OthersStay("bandwidth")
    \/ part = "runtime" /\ RuntimeNext /\ OthersStay("runtime")
    \/ part = "routing" /\ RoutingNext /\ OthersStay("routing")
    \/ part = "static" /\ StaticNext /\ OthersStay("static")
    \/ part = "message" /\ MessageNext /\ OthersStay("message")
    \/ part = "lossy" /\ LossyNext /\ OthersStay("lossy")

\* Of the parts only the runtime needs fairness; where it does not move no
\* thread of it is in a call, and nothing is asked of it.
PartsSpec == PartsInit /\ [][PartsNext]_partsVars /\ RuntimeFairness

\* The type invariants of the parts.
PartsTypeOK ==
    /\ BandwidthTypeOK /\ RuntimeTypeOK /\ RoutingTypeOK
    /\ StaticTypeOK /\ MessageTypeOK
=============================================================================
