-------------------------- MODULE MCOverviewCollector --------------------------
(* Small logs of each kind: exchanges on three lanes of the web service, one *)
(* of them over two hourly files, and for each counting analyzer events that *)
(* have, lack or garble fields.                                              *)
EXTENDS OverviewCollector

Nothing == [f \in {} |-> ""]

EvOf(origin, name, at, micros, raw, fields) ==
  [origin |-> origin, name |-> name, at |-> at, micros |-> micros, raw |-> raw, fields |-> fields]

Ev(name, at, micros, raw, fields) == EvOf(1, name, at, micros, raw, fields)

-------------------------------------------------------------------------------
Seg(text, isID) == [text |-> text, isID |-> isID]
Item(id, value) ==
  [path |-> <<Seg("items", FALSE), Seg(id, TRUE)>>, query |-> <<[key |-> "v", value |-> value]>>]
List == [path |-> <<Seg("list", FALSE)>>, query |-> <<>>]

(* The file and the name of an event decide its origin. *)
Web(name, source, exchange, identity, at, micros, raw, fields) ==
  [origin |-> 3 * source + (CASE name = "VRSCACHE" -> 0 [] name = "VRSREQUEST" -> 1
                              [] name = "VRSRESPONSE" -> 2),
   name |-> name, source |-> source, at |-> at, micros |-> micros, raw |-> raw, fields |-> fields,
   exchange |-> exchange, identity |-> identity]

Req(x, identity, at, source, uri) ==
  Web("VRSREQUEST", source, x, identity, at, 0, x,
      [OSThread |-> "a", Method |-> "GET", URI |-> uri, Bytes |-> Malformed, Body |-> 5])
Resp(x, identity, at, source, status) ==
  Web("VRSRESPONSE", source, x, identity, at, 7, 10 + x,
      [OSThread |-> "a", Status |-> status, Bytes |-> 3])
CacheEvent(x, identity, at, source, uri) ==
  Web("VRSCACHE", source, x, identity, at, 1, 20 + x,
      [OSThread |-> "a", Method |-> "GET", URI |-> uri, Result |-> "hit"])

C1 == [ClientID |-> "c1"]
C2 == [ClientID |-> "c2"]
S1 == [SessionID |-> "s1"]

(* Exchanges of one hour. *)
Anonymous ==
  {Req(1, Nothing, 1, 1, Item("1", "x")), Resp(1, Nothing, 2, 1, 200),
   Req(2, Nothing, 1, 1, Item("2", "y")), Resp(2, Nothing, 3, 1, 500),
   Req(3, C1, 2, 1, List), Resp(3, C1, 1, 1, 404),
   CacheEvent(1, Nothing, 3, 1, Item("1", "z"))}

(* The fifth exchange is under way when the second hour begins. *)
Named ==
  {Req(3, C1, 2, 1, List), Resp(3, C1, 1, 1, 404), CacheEvent(4, C2, 4, 2, List),
   Req(5, C2, 2, 1, List), Resp(5, S1, 4, 2, Malformed),
   Req(6, C1, 4, 2, List), Resp(6, S1, 5, 2, 302),
   Web("VRSCACHE", 1, 9, C1, 4, 1, 29, [OSThread |-> "b", Result |-> "miss"])}

MCWebEvents == Anonymous \cup Named

-------------------------------------------------------------------------------
Locks ==
  {Ev("TLOCK", 0, 1, 1, [Context |-> "c", Tables |-> {"t1", "t2"}, Waiter |-> "w", Blocker |-> "b"]),
   Ev("TLOCK", 1, 2, 2, [Usr |-> "u", Regions |-> {"r"}, Waiter |-> "w"]),
   Ev("TTIMEOUT", 1, 1, 3, Nothing),
   Ev("TDEADLOCK", 0, 2, 4, [Context |-> "c", Tables |-> {"t1"}, Regions |-> {"r"},
                             Waiter |-> "w", Blocker |-> "b"])}

Calls ==
  {Ev("SCALL", 0, 1, 1, [Interface |-> "i", Method |-> "m", InBytes |-> 4, CpuTime |-> Malformed]),
   Ev("SCALL", 3, 3, 2, [Interface |-> "i", IName |-> "n", Method |-> "m", InBytes |-> 1,
                         Memory |-> 2, Usr |-> "u", process |-> "p"]),
   Ev("SCALL", 0, 3, 3, [IName |-> "n", DataBase |-> "d", InBytes |-> 2])}

Processes ==
  {Ev("PROC", 0, 1, 1, [process |-> "p", OSThread |-> "1"]),
   Ev("PROC", 1, 2, 2, [OSThread |-> "1"]),
   Ev("SCOM", 0, 1, 3, [process |-> "p", Func |-> <<"setSrcProcessName", "1", "src", "dst">>]),
   Ev("SCOM", 1, 3, 4, [process |-> "p", Func |-> <<"new ServerProcessData", "1", "src", "">>])}

Functions ==
  {Ev("SCOM", 0, 1, 1, [Func |-> <<"new ServerProcessData", "1">>]),
   Ev("SCOM", 0, 2, 2, [Func |-> <<>>, process |-> "p"]),
   Ev("SCOM", 1, 1, 3, Nothing),
   Ev("SCOM", 1, 1, 4, [Func |-> <<"other", "1", "a", "b">>])}

Licenses ==
  {Ev("LIC", 0, 1, 1, [res |-> "acquire", Func |-> "f", txt |-> {"several", "last succeeds", "failed"}]),
   Ev("LIC", 1, 2, 2, [res |-> "seize", txt |-> {"expired"}]),
   Ev("LIC", 0, 2, 3, [res |-> "release", Usr |-> "u"]),
   Ev("LIC", 2, 1, 4, [res |-> "acquire", txt |-> {"ok"}])}

Dongles ==
  {Ev("HASP", 0, 1, 1, [txt |-> {"from cache", "from os"}, process |-> "p"]),
   Ev("HASP", 1, 1, 2, [txt |-> {"from os"}, system |-> {"id"}]),
   EvOf(2, "LIC", 1, 1, 3, [res |-> "seize", txt |-> {"wrong type"}]),
   Ev("HASP", 1, 2, 4, Nothing)}

Files ==
  {Ev("DBV8DBEng", 0, 1, 1, [Func |-> "read", FileName |-> <<"/", "srv", "1Cv8.1CD">>, Rows |-> 2]),
   Ev("DBV8DBEng", 1, 2, 2, [Func |-> "other", FileName |-> <<"/", "tmp", "1Cv8.1CD">>,
                             Rows |-> Malformed, RowsAffected |-> 1, Error |-> "e"]),
   Ev("DBV8DBEng", 1, 2, 3, [tableName |-> "t", DataBase |-> "d", Error |-> "e", Trans |-> "1"]),
   Ev("DBV8DBEng", 0, 1, 4, [CatName |-> "c", FileName |-> <<"rel">>, Error |-> "e", Usr |-> "u"])}

Queries ==
  {Ev("DBMSSQL", 0, 1, 1, [Sql |-> "q1", Rows |-> 3, Context |-> "c", Usr |-> "u"]),
   Ev("DBPOSTGRS", 5, 2, 2, [Sdbl |-> "q1", DataBase |-> "d"]),
   Ev("DBMSSQL", 2, 2, 2, [Sql |-> "q1", Sdbl |-> "q2", Rows |-> Malformed]),
   Ev("DBMSSQL", 1, 1, 2, Nothing)}

Mixed ==
  {Ev("SCALL", 1, 1, 1, [Usr |-> "u"]), EvOf(2, "TLOCK", 1, 1, 2, [Context |-> "c"]),
   Ev("EXCP", 3, 2, 3, Nothing)}

MCConfigurations ==
  {Anonymous, Named, Locks, Calls, Processes, Functions, Licenses, Dongles, Files, Queries, Mixed}
===============================================================================
