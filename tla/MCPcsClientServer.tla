------------------------- MODULE MCPcsClientServer -------------------------
(* The PCS on one computer for TLC: the requests to it, where client a comes  *)
(* back and b and c call once, and beside them the typed messages it          *)
(* translates.  A behaviour exercises one of the two.                         *)
EXTENDS PcsClientServer, TLC

CONSTANTS a, b, c, Longs, Values

VARIABLES component,
          from, to, format, tail, enumerator, at, block, arrived

CallsOf == (a :> 2) @@ (b :> 1) @@ (c :> 1)

Element(id) == [id |-> id, of |-> <<>>]
Structure(f) == [id |-> "S", of |-> f]
Union == [id |-> "U", of |-> <<Element("s")>>]
(* every sequence of three elements, and compounds behind and in front of others *)
Formats ==
    {<<Element(x), Element(y), Element(z)>> : x, y, z \in {"o", "s", "l", "L", "e", "f"}}
    \union {<<Element(x), Union, Element(y)>> : x, y \in {"o", "s"}}
    \union {<<Element(x), Structure(<<Element("o"), Element(y)>>), Element("s")>> : x, y \in {"o", "s", "l", "L"}}
Messages == INSTANCE Marshalling WITH
    EnumRange <- 65536, Tails <- {<<>>}, sender <- from, receiver <- to, delivered <- arrived

marshallingVars == <<from, to, format, tail, enumerator, at, block, arrived>>
pcsVars == <<component, vars, marshallingVars>>

ASSUME Messages!LongsAssumption

PcsInit ==
    /\ component \in {"requests", "marshalling"}
    /\ Init /\ Messages!Init
    /\ component # "marshalling" =>
            from = 4 /\ to = 4 /\ enumerator = 1 /\ format = <<Element("o"), Element("o"), Element("o")>>

PcsNext ==
    /\ UNCHANGED component
    /\ \/ component = "requests" /\ Next /\ UNCHANGED marshallingVars
       \/ component = "marshalling" /\ Messages!Next /\ UNCHANGED vars

(* the fairness of PcsClientServer, in the behaviours that exercise it *)
PcsFairness ==
    /\ WF_vars(component = "requests" /\ handleOneRequest)
    /\ \A client \in Clients : WF_vars(component = "requests" /\ sendAndReceive(client))

PcsSpec == PcsInit /\ [][PcsNext]_pcsVars /\ PcsFairness

(* A typed message arrives in the layout of the receiver, see Marshalling.    *)
MessagesArrive == Messages!MessagesArrive
=============================================================================
