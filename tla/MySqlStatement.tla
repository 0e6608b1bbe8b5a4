---------------------------- MODULE MySqlStatement ----------------------------
(***************************************************************************)
(* XMySqlConnector: one connection with one prepared statement.  The       *)
(* caller binds parameters, names a stored procedure and executes; fetches *)
(* the rows of the result sets into columns it bound; and reads the OUT    *)
(* and INOUT parameters back through a select of the user variables        *)
(* @ret_1, @ret_2, ... that stood for them in the call.                    *)
(*                                                                         *)
(* What the client library and the server do is external: results waits    *)
(* for whoever asks, one at a time, and a statement cannot be prepared     *)
(* while a later result waits.  The value of a user variable is the place  *)
(* of the parameter the call since InitBindParam left there; 0 is an older *)
(* value or one the caller set.                                            *)
(***************************************************************************)
EXTENDS Integers, Sequences, SequencesExt

CONSTANTS
  MaxBind,      \* MAX_BIND_PARAM_NUM
  ParamTypes,   \* data types callers bind parameters of
  ColTypes,     \* and columns of
  ResultLists,  \* lists of result sets a procedure may return
  MaxParams     \* bound: parameters of a procedure

ASSUME MySqlAssumption ==
  /\ MaxBind \in Nat \ {0} /\ MaxParams \in Nat
  /\ ResultLists \subseteq Seq([fields : Seq(STRING), rows : Nat])

VARIABLES
  link,        \* "new", "initialized", "connected", "gone", "aborted"
  params,      \* m_ParamDescInfo
  named,       \* m_szProcedureName is set
  bindParam,   \* m_bindParam up to m_nCurBindParamIndex
  inout,       \* m_inoutParamIndex up to m_unInoutParamCount
  existOut,    \* m_bExistOutParam
  existInout,  \* m_bExistInoutParam
  setText,     \* m_pSqlStatementForSetParam: its "set @ret_n=...;"
  selectText,  \* m_pSelectOutputResultSqlStatement
  cols,        \* m_bindCol up to m_nCurBindColIndex
  bindCol,     \* m_bBindCol
  db,          \* the statement handle of the client library
  userVars,    \* the server's @ret_n
  since,       \* history: ExcuteSql since InitBindParam: "none", "once", "else"
  sent,        \* history: descriptions and buffers of the last call
  direct,      \* history: ExcuteSqlDirect ran with m_bBindCol set
  brought      \* history: what the last call of the caller brought
binding == <<params, named, bindParam, inout, existOut, existInout, setText, selectText>>
mysqlVars == <<link, binding, cols, bindCol, db, userVars, since, sent,
               direct, brought>>

NoText == [vars |-> <<>>, comma |-> FALSE]
NoValues == [n \in 1 .. MaxBind |-> 0]
NotSent == [params |-> <<>>, buffers |-> <<>>]
Nothing == [call |-> "none"]
NotBound == <<>>
Idle == [state |-> "idle", fields |-> <<>>, rows |-> 0, more |-> <<>>, bound |-> NotBound]

MySqlInit ==
  /\ link = "new"
  /\ params = <<>> /\ named = FALSE /\ bindParam = <<>> /\ inout = <<>>
  /\ existOut = FALSE /\ existInout = FALSE /\ setText = <<>> /\ selectText = NoText
  /\ cols = <<>> /\ bindCol = FALSE
  /\ db = Idle /\ userVars = NoValues
  /\ since = "none" /\ sent = NotSent /\ direct = FALSE /\ brought = Nothing

\* The object is gone, or the process: what the members held is of no use.
Ended(how) ==
  /\ link' = how
  /\ params' = <<>> /\ named' = FALSE /\ bindParam' = <<>> /\ inout' = <<>>
  /\ existOut' = FALSE /\ existInout' = FALSE /\ setText' = <<>> /\ selectText' = NoText
  /\ cols' = <<>> /\ bindCol' = FALSE
  /\ db' = Idle /\ userVars' = NoValues
  /\ since' = "none" /\ sent' = NotSent /\ direct' = FALSE /\ brought' = Nothing

-----------------------------------------------------------------------------
(* The buffer a data type is bound with: its type and whether it is         *)
(* unsigned.  Another type (E_Data_Type_NULL) is bound with nothing.        *)

Numbers ==
  [Char  |-> <<"TINY", FALSE>>,  Unsigned_Char  |-> <<"TINY", TRUE>>,
   Short |-> <<"SHORT", FALSE>>, Unsigned_Short |-> <<"SHORT", TRUE>>,
   Int   |-> <<"LONG", FALSE>>,  Unsigned_Int   |-> <<"LONG", TRUE>>]
WideNumbers ==
  [Int64 |-> <<"LONGLONG", FALSE>>, Unsigned_Int64 |-> <<"LONGLONG", TRUE>>,
   Bool  |-> <<"BIT", FALSE>>,      Float          |-> <<"FLOAT", FALSE>>]
Texts ==
  [String_Fix_Len |-> <<"STRING", FALSE>>, String |-> <<"VAR_STRING", FALSE>>,
   Date |-> <<"DATE", FALSE>>, Time |-> <<"TIME", FALSE>>,
   DateTime |-> <<"DATETIME", FALSE>>]

\* The numbers of a finite set, ascending, and what a list has at these places.
InOrder(S) ==
  CHOOSE s \in SetToSeqs(S) : \A i, j \in DOMAIN s : i < j => s[i] < s[j]
PickedFrom(list, places) == [k \in DOMAIN InOrder(places) |-> list[InOrder(places)[k]]]

\* BindParamExcute: the buffers the parameters of a list are bound with.
ParamBuffers(types) ==
  LET Buffer == Numbers @@ WideNumbers @@ Texts
      bound  == PickedFrom(types, {k \in DOMAIN types : types[k] \in DOMAIN Buffer})
  IN  [k \in DOMAIN bound |-> Buffer[bound[k]]]

\* BindCol chooses the same way, in a switch of its own.
ColNumbers ==
  [Char  |-> <<"TINY", FALSE>>,  Unsigned_Char  |-> <<"TINY", TRUE>>,
   Short |-> <<"SHORT", FALSE>>, Unsigned_Short |-> <<"SHORT", TRUE>>,
   Int   |-> <<"LONG", FALSE>>,  Unsigned_Int   |-> <<"LONG", TRUE>>,
   Int64 |-> <<"LONGLONG", FALSE>>, Unsigned_Int64 |-> <<"LONGLONG", TRUE>>]
ColOthers ==
  [Bool |-> <<"BIT", FALSE>>, Float |-> <<"FLOAT", FALSE>>,
   String_Fix_Len |-> <<"STRING", FALSE>>, String |-> <<"VAR_STRING", FALSE>>,
   Date |-> <<"DATE", FALSE>>, Time |-> <<"TIME", FALSE>>,
   DateTime |-> <<"DATETIME", FALSE>>]
ColBuffer == ColNumbers @@ ColOthers

\* BuildSetParamValue writes a "set" for the same types and none for another.
BuildSetParamValue(type) == type \in DOMAIN (Numbers @@ WideNumbers @@ Texts)

\* The switches assert that one place stays free, in every build.
Asserted(count) == count <= MaxBind - 1

-----------------------------------------------------------------------------
(* The client library (external).                                           *)

Executed(results) ==
  [state |-> "executed", fields |-> Head(results).fields, rows |-> Head(results).rows,
   more |-> Tail(results), bound |-> NotBound]

\* A call, and a statement that selects nothing, ends with a result without
\* fields.
Called(list) == Executed(Append(list, [fields |-> <<>>, rows |-> 0]))

\* mysql_stmt_prepare drops the current result and fails while others wait.
Dropped == [db EXCEPT !.state = "idle", !.fields = <<>>, !.bound = NotBound]

\* mysql_stmt_bind_result: every field of the result needs a buffer.
Bindable(d, buffers) == d.fields # <<>> /\ Len(d.fields) <= Len(buffers)
WithBound(d, buffers) == [d EXCEPT !.bound = SubSeq(buffers, 1, Len(d.fields))]

\* mysql_stmt_fetch.
HasRow(d) == d.state # "idle" /\ d.fields # <<>> /\ d.rows > 0
RowTaken(d) == [d EXCEPT !.rows = @ - 1]
\* A text that does not fit its buffer is reported instead of the row.
MayBeTruncated(d) == \E k \in DOMAIN d.bound : d.bound[k][1] \in {"STRING", "VAR_STRING"}

-----------------------------------------------------------------------------
(* Connection.                                                              *)

InitializeMySql ==
  /\ link = "new" /\ link' = "initialized" /\ brought' = Nothing
  /\ UNCHANGED <<binding, cols, bindCol, db, userVars, since, sent, direct>>

\* A failed attempt leaves the members as they are.
ConnectMySql ==
  /\ link = "initialized" /\ link' = "connected" /\ brought' = Nothing
  /\ UNCHANGED <<binding, cols, bindCol, db, userVars, since, sent, direct>>

\* The pointers keep their values: nothing may be called afterwards.
DisConnect == link \in {"initialized", "connected"} /\ Ended("gone")

-----------------------------------------------------------------------------
(* Parameters.                                                              *)

Usable == link \in {"initialized", "connected"}

\* Mutant of InitBindParam: m_unInoutParamCount is not reset.
InitBindParamKeepsCount ==
  /\ Usable
  /\ params' = <<>> /\ named' = FALSE /\ bindParam' = <<>> /\ UNCHANGED inout
  /\ existOut' = FALSE /\ existInout' = FALSE /\ setText' = <<>> /\ selectText' = NoText
  /\ since' = "none" /\ sent' = NotSent /\ userVars' = NoValues /\ brought' = Nothing
  /\ UNCHANGED <<link, cols, bindCol, db, direct>>

InitBindParam ==
  /\ Usable
  /\ params' = <<>> /\ named' = FALSE /\ bindParam' = <<>> /\ inout' = <<>>
  /\ existOut' = FALSE /\ existInout' = FALSE /\ setText' = <<>> /\ selectText' = NoText
  /\ since' = "none" /\ sent' = NotSent /\ userVars' = NoValues /\ brought' = Nothing
  /\ UNCHANGED <<link, cols, bindCol, db, direct>>

\* With the array full the call returns false.
BindParam(type, kind) ==
  /\ Usable /\ Len(params) < MaxBind /\ Len(params) < MaxParams
  /\ params' = Append(params, [type |-> type, kind |-> kind])
  /\ brought' = Nothing
  /\ UNCHANGED <<link, named, bindParam, inout, existOut, existInout, setText,
                 selectText, cols, bindCol, db, userVars, since, sent, direct>>

SetProcedureName ==
  /\ Usable /\ named' = TRUE /\ brought' = Nothing
  /\ UNCHANGED <<link, params, bindParam, inout, existOut, existInout, setText,
                 selectText, cols, bindCol, db, userVars, since, sent, direct>>

\* The places of the parameters of these kinds, in order.
PlacesOf(list, kinds) == InOrder({p \in DOMAIN list : list[p].kind \in kinds})
Ins  == PlacesOf(params, {"in"})
Outs == PlacesOf(params, {"out", "inout"})
InTypes(list) ==
  [k \in DOMAIN PlacesOf(list, {"in"}) |-> list[PlacesOf(list, {"in"})[k]].type]

\* ExcuteBindParamAndPrepareSetValueSqlStatement.  The select lists a variable
\* per OUT and INOUT parameter, with a comma behind each that is not the last
\* parameter of all.  What earlier executions left in bindParam, inout and
\* setText stays in front.
BoundNow == bindParam \o ParamBuffers(InTypes(params))
SetNow ==
  LET sets == {n \in DOMAIN Outs : params[Outs[n]].kind = "inout"
                                   /\ BuildSetParamValue(params[Outs[n]].type)}
  IN  setText \o PickedFrom([n \in DOMAIN Outs |-> <<n, Outs[n]>>], sets)
BindParamFinalize ==
  /\ bindParam' = BoundNow
  /\ inout' = inout \o Outs
  /\ existOut' = (existOut \/ \E p \in DOMAIN params : params[p].kind = "out")
  /\ existInout' = (existInout \/ \E p \in DOMAIN params : params[p].kind = "inout")
  /\ setText' = SetNow
  /\ selectText' = [vars |-> [n \in 1 .. Len(Outs) |-> n],
                    comma |-> Outs # <<>> /\ Last(Outs) # Len(params)]
  /\ UNCHANGED <<params, named>>

-----------------------------------------------------------------------------
(* ExcuteSql.  A prepared statement holds one statement: two "set" fail.    *)

SetRuns == existInout' => Len(setText') = 1 /\ db.more = <<>>
VarsSet ==
  IF existInout' THEN [userVars EXCEPT ![setText'[1][1]] = 0]
  ELSE userVars
CallPrepared == named /\ db.more = <<>>
CallAccepted == Len(bindParam') = Len(Ins)

\* The caller stops before m_inoutParamIndex overflows.
ExcuteSql ==
  /\ link = "connected" /\ Len(inout) + Len(Outs) <= MaxBind
  /\ IF ~Asserted(Len(BoundNow)) THEN Ended("aborted")
     ELSE
     /\ BindParamFinalize
     /\ UNCHANGED <<link, cols>> /\ brought' = Nothing
     /\ \/ \* The server or the library refuses something.
           /\ db' = IF existInout' /\ setText' = <<>> THEN db ELSE Dropped
           /\ userVars' \in {userVars} \cup (IF SetRuns THEN {VarsSet} ELSE {})
           /\ since' = "else" /\ sent' = NotSent
           /\ \/ UNCHANGED <<bindCol, direct>>
              \/ /\ SetRuns /\ CallPrepared /\ CallAccepted
                 /\ bindCol' = FALSE /\ direct' = FALSE
        \/ /\ SetRuns /\ CallPrepared /\ CallAccepted
           /\ bindCol' = FALSE /\ direct' = FALSE
           /\ userVars' = [n \in 1 .. MaxBind |-> IF n <= Len(Outs) THEN Outs[n] ELSE 0]
           /\ \E list \in ResultLists : db' = Called(list)
           /\ since' = IF since = "none" THEN "once" ELSE "else"
           /\ sent' = IF since = "none" THEN [params |-> params, buffers |-> bindParam']
                      ELSE NotSent

\* m_bBindCol is left as it is.
ExcuteSqlDirect ==
  /\ link = "connected" /\ brought' = Nothing
  /\ \/ db' = Dropped /\ UNCHANGED direct
     \/ /\ db.more = <<>>
        /\ \E list \in ResultLists :
             db' \in {Called(list)} \cup (IF Len(list) = 1 THEN {Executed(list)} ELSE {})
        /\ direct' = bindCol
  /\ UNCHANGED <<link, binding, cols, bindCol, userVars, since, sent>>

-----------------------------------------------------------------------------
(* Columns and rows.                                                        *)

InitBindCol ==
  /\ Usable
  /\ cols' = <<>> /\ bindCol' = FALSE /\ direct' = FALSE /\ brought' = Nothing
  /\ UNCHANGED <<link, binding, db, userVars, since, sent>>

\* A type the switch does not know binds nothing and returns true.
BindCol(type) ==
  /\ Usable /\ type \in DOMAIN ColBuffer
  /\ IF ~Asserted(Len(cols) + 1) THEN Ended("aborted")
     ELSE /\ cols' = Append(cols, ColBuffer[type]) /\ brought' = Nothing
          /\ UNCHANGED <<link, binding, bindCol, db, userVars, since, sent, direct>>

\* Mutant of Matches: the types are not compared.
MatchesByCount(fields) == Len(fields) = Len(cols)

Matches(fields) ==
  Len(fields) = Len(cols) /\ \A k \in DOMAIN fields : fields[k] = cols[k][1]

\* FindResult stores one result after the other until one matches; those
\* before are freed.  Without a match it returns true as well, on the last one,
\* which is freed too.  It is false where there is no unread result to store.
CanStore == db.state = "executed" \/ db.fields = <<>>
FoundResult ==
  LET all  == <<[fields |-> db.fields, rows |-> db.rows]>> \o db.more
      hits == {k \in DOMAIN all : Matches(all[k].fields)}
      k    == IF hits = {} THEN Len(all) ELSE Min(hits)
  IN  [state |-> IF hits = {} THEN "idle" ELSE "stored", fields |-> all[k].fields,
       rows |-> all[k].rows, more |-> SubSeq(all, k + 1, Len(all)), bound |-> NotBound]

\* mysql_stmt_fetch on d, with m_bBindCol set.
FetchRow(d) ==
  IF HasRow(d)
    THEN /\ db' = RowTaken(d)
         /\ brought' \in {[call |-> "row", fields |-> d.fields, bound |-> d.bound]}
                         \cup (IF MayBeTruncated(d) THEN {Nothing} ELSE {})
    ELSE db' = [d EXCEPT !.state = "idle"] /\ brought' = Nothing

Fetch ==
  /\ link = "connected"
  /\ IF bindCol
       THEN FetchRow(db) /\ UNCHANGED bindCol
     ELSE IF CanStore
       THEN IF Bindable(FoundResult, cols)
              THEN FetchRow(WithBound(FoundResult, cols)) /\ bindCol' = TRUE
              ELSE db' = FoundResult /\ brought' = Nothing /\ UNCHANGED bindCol
     ELSE brought' = Nothing /\ UNCHANGED <<db, bindCol>>
  /\ UNCHANGED <<link, binding, cols, userVars, since, sent, direct>>

FreeMoreResult ==
  /\ link = "connected"
  /\ db' = Idle /\ brought' = Nothing
  /\ UNCHANGED <<link, binding, cols, bindCol, userVars, since, sent, direct>>

-----------------------------------------------------------------------------
(* GetOutputResult.                                                         *)

\* BindOutputCol: the places in inout whose type binds a column, in order.  A
\* place behind the parameters makes it fail.
Misplaced == \E k \in DOMAIN inout : inout[k] > Len(params)
OutputPlaces ==
  PickedFrom(inout, {k \in DOMAIN inout : inout[k] <= Len(params)
                                          /\ params[inout[k]].type \in DOMAIN ColBuffer})
OutputCols == [k \in DOMAIN OutputPlaces |-> ColBuffer[params[OutputPlaces[k]].type]]

\* The results are freed first and, when the values were got, last; a select
\* that is left behind has one row and a field per variable.
GetOutputResult ==
  LET vars   == selectText.vars
      Select == Executed(<<[fields |-> [n \in DOMAIN vars |-> "VAR"], rows |-> 1]>>)
  IN
  /\ link = "connected"
  /\ \/ /\ db' = Idle /\ brought' = Nothing
        /\ UNCHANGED <<link, binding, cols, bindCol, userVars, since, sent, direct>>
     \/ /\ existOut \/ existInout
        /\ ~selectText.comma
        /\ IF ~Asserted(Len(OutputCols)) THEN Ended("aborted")
           ELSE
           /\ cols' = OutputCols /\ direct' = bindCol
           /\ \/ /\ Misplaced \/ ~Bindable(Select, OutputCols)
                 /\ db' = Select /\ brought' = Nothing
              \/ /\ ~Misplaced /\ Bindable(Select, OutputCols)
                 /\ \/ /\ MayBeTruncated(WithBound(Select, OutputCols))
                       /\ db' = RowTaken(WithBound(Select, OutputCols))
                       /\ brought' = Nothing
                    \/ /\ db' = Idle
                       /\ brought' = [call |-> "outputs",
                            places |-> SubSeq(OutputPlaces, 1, Len(vars)),
                            values |-> [n \in DOMAIN vars |-> userVars[n]]]
           /\ UNCHANGED <<link, binding, bindCol, userVars, since, sent>>

MySqlNext ==
  \/ InitializeMySql \/ ConnectMySql \/ DisConnect
  \/ InitBindParam \/ SetProcedureName
  \/ \E type \in ParamTypes, kind \in {"in", "out", "inout"} : BindParam(type, kind)
  \/ ExcuteSql \/ ExcuteSqlDirect
  \/ InitBindCol \/ Fetch \/ FreeMoreResult \/ GetOutputResult
  \/ \E type \in ColTypes : BindCol(type)

MySqlSpec == MySqlInit /\ [][MySqlNext]_mysqlVars

-----------------------------------------------------------------------------
(* Properties.                                                              *)

\* XMySqlConnector.cpp:1033 and :1181: a call is sent the parameters bound for
\* IN, in order, and after it GetOutputResult puts into every OUT and INOUT
\* parameter what this call left there.  Excepted are a second ExcuteSql
\* without InitBindParam, and a failed one.
OutputsOfTheCall ==
  since = "once" =>
    /\ sent.buffers = ParamBuffers(InTypes(sent.params))
    /\ brought.call = "outputs" =>
         /\ brought.places = PlacesOf(sent.params, {"out", "inout"})
         /\ \A n \in DOMAIN brought.places : brought.values[n] = brought.places[n]

\* XMySqlConnector.cpp:1145: a row Fetch returns is one of a result set whose
\* fields have the types of the columns bound since InitBindCol, and is put
\* into these.  Excepted is ExcuteSqlDirect between two Fetch: m_bBindCol stays
\* set and the new result is never bound.
RowsFillTheColumns ==
  brought.call = "row" /\ ~direct =>
    /\ IsPrefix(brought.bound, cols)
    /\ brought.fields = [k \in DOMAIN brought.bound |-> brought.bound[k][1]]
=============================================================================
