------------------------------ MODULE MCClients ------------------------------
(* Instances for TLC of four parts a client of the engine is built from and   *)
(* that share no state: every behaviour is one of Connector, of PacketBuffer, *)
(* of PacketPool or of MySqlStatement, and the other three stay in their      *)
(* initial states.  Constants: here and in the .cfg.                          *)
EXTENDS Connector, PacketBuffer, PacketPool, MySqlStatement

Desc(len, init, max) == [len |-> len, init |-> init, max |-> max]
\* One and two lengths, and three; not in order; more packets than places; a
\* length twice; a zero; none.
DescLists ==
  {<<Desc(1, 2, 3)>>, <<Desc(2, 1, 3)>>, <<Desc(1, 1, 2), Desc(2, 2, 4)>>,
   <<Desc(1, 1, 3), Desc(3, 1, 2), Desc(2, 1, 4)>>, <<Desc(2, 1, 3), Desc(1, 1, 3)>>,
   <<Desc(1, 1, 2), Desc(2, 1, 1)>>, <<Desc(1, 1, 2), Desc(1, 1, 2)>>,
   <<Desc(0, 1, 1)>>, <<>>}

Result(fields, rows) == [fields |-> fields, rows |-> rows]
\* One result set, and two with another one's types.
ServerResults ==
  {<<Result(<<"VAR_STRING">>, 1)>>,
   <<Result(<<"LONGLONG">>, 1), Result(<<"VAR_STRING", "VAR_STRING">>, 1)>>}

VARIABLE part
otherVars == <<part, packetVars, poolVars, mysqlVars>>
clientVars == <<vars, otherVars>>

ClientsInit ==
  /\ part \in {"connector", "packet", "pool", "mysql"}
  /\ Init /\ PacketInit /\ PoolInit /\ MySqlInit

ClientsNext ==
  /\ UNCHANGED part
  /\ \/ part = "connector" /\ Next /\ UNCHANGED <<packetVars, poolVars, mysqlVars>>
     \/ part = "packet" /\ PacketNext /\ UNCHANGED <<vars, poolVars, mysqlVars>>
     \/ part = "pool" /\ PoolNext /\ UNCHANGED <<vars, packetVars, mysqlVars>>
     \/ part = "mysql" /\ MySqlNext /\ UNCHANGED <<vars, packetVars, poolVars>>

ClientsSpec == ClientsInit /\ [][ClientsNext]_clientVars
=============================================================================
