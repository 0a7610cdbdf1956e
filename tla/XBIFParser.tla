----------------------------- MODULE XBIFParser -----------------------------
(***************************************************************************)
(* The SAX handler of XBIFParser.java.  One handler serves all the files   *)
(* of a command line, and each file as often as -x says.  The reader calls *)
(* it for every tag and piece of text of a document, and a document may    *)
(* break off anywhere: an error in its form makes parse() throw, as does   *)
(* an exception of the handler's own, main() goes on to the next file, and *)
(* the fields stay as they are.                                            *)
(*                                                                         *)
(* Text is a sequence of pieces, every one delivered by a call of its own. *)
(* Objects are values: once a Variable, Observation or Table is in its map *)
(* no tag of these documents changes it.  Counters kept for printResults   *)
(* are left out.                                                           *)
(***************************************************************************)
EXTENDS Integers, Sequences, SequencesExt

CONSTANTS
  Documents,   \* each a sequence of declarations
  Numerals,    \* the texts Integer.parseInt accepts
  MaxFiles     \* how often parse() is called: files of the command line, times -x

ASSUME MaxFilesAssumption == MaxFiles \in Nat

White == {" "}

VARIABLES
  parserState, cbuf, cVariable, cObs, cTable,
  variables, obs, tables,
  doc,     \* the document being read, or read last
  events,  \* what the reader has still to report of it
  stage,   \* "idle", "reading", or "read" when parse() has returned
  clean,   \* whether the document found the handler outside of all tags
  files    \* documents begun

current == <<cVariable, cObs, cTable>>
maps    == <<variables, obs, tables>>
reader  == <<doc, events, stage, clean, files>>
vars    == <<parserState, cbuf, current, maps, reader>>

Null == [null |-> TRUE]
None == <<>>     \* a String field not set

\* String.trim
Trim(s) ==
  LET solid == {k \in DOMAIN s : s[k] \notin White}
  IN  IF solid = {} THEN <<>>
      ELSE SubSeq(s, CHOOSE k \in solid : \A m \in solid : k <= m,
                     CHOOSE k \in solid : \A m \in solid : m <= k)

\* HashMap.put
Put(map, key, value) == [x \in DOMAIN map \cup {key} |-> IF x = key THEN value ELSE map[x]]

EmptyMap == [x \in {} |-> Null]

-----------------------------------------------------------------------------
(***************************************************************************)
(* What the reader reports of a document.  A declaration is of a variable, *)
(* observed or not, or of the table of one.  There is a name of the whole  *)
(* network before them and an element the handler does not know in each,   *)
(* and white space between elements counts as text.                        *)
(***************************************************************************)
Event(call, what) == <<[call |-> call, what |-> what]>>
Text(t)           == [k \in DOMAIN t |-> [call |-> "characters", what |-> t[k]]]
Element(e, inner) ==
  Event("startElement", e) \o inner \o Event("endElement", e) \o Text(<<" ">>)

VariableElement(d) ==
  Element("Variable",
    Text(<<" ">>) \o Element("Name", Text(d.name)) \o Element("Property", Text(<<"p">>))
      \o Element("Values", Text(d.values))
      \o IF d.observed = None THEN <<>> ELSE Element("Observed", Text(d.observed)))

ProbabilityElement(d) ==
  Element("Probability",
    Text(<<" ">>) \o Element("For", Text(d.for)) \o Element("Property", Text(<<"p">>))
      \o FlattenSeq([k \in DOMAIN d.given |-> Element("Given", Text(d.given[k]))])
      \o Element("Table", Text(d.table)))

Report(d) ==
  Element("Network",
    Element("Name", Text(<<"n">>))
      \o FlattenSeq([k \in DOMAIN d |-> IF d[k].kind = "variable" THEN VariableElement(d[k])
                                        ELSE ProbabilityElement(d[k])]))

-----------------------------------------------------------------------------
Init ==
  /\ parserState = 0
  /\ cbuf = <<>>
  /\ cVariable = Null /\ cObs = Null /\ cTable = Null
  /\ variables = EmptyMap /\ obs = EmptyMap /\ tables = EmptyMap
  /\ doc = <<>> /\ events = <<>> /\ stage = "idle" /\ clean = TRUE /\ files = 0

\* main() hands the reader the next file.
Parse(d) ==
  /\ stage # "reading" /\ files < MaxFiles
  /\ doc' = d /\ events' = Report(d) /\ stage' = "reading"
  /\ clean' = (parserState = 0)
  /\ files' = files + 1

\* Mutant: the maps are made once, in the constructor.
StartDocumentKeepingMaps(d) ==
  /\ Parse(d)
  /\ cbuf' = <<>>
  /\ UNCHANGED <<parserState, current, maps>>

StartDocument(d) ==
  /\ Parse(d)
  /\ cbuf' = <<>>
  /\ variables' = EmptyMap /\ obs' = EmptyMap /\ tables' = EmptyMap
  /\ UNCHANGED <<parserState, current>>

Reported(call) == stage = "reading" /\ events # <<>> /\ Head(events).call = call
GoOn           == events' = Tail(events) /\ UNCHANGED <<doc, stage, clean, files>>

\* parse() throws, and main() leaves the file.
Abandon == stage' = "idle" /\ events' = <<>> /\ UNCHANGED <<doc, clean, files>>

\* The state an opening tag leads to.
Entered(e) ==
  CASE parserState = 0 /\ e = "Variable"    -> 1
    [] parserState = 0 /\ e = "Probability" -> 2
    [] parserState = 1 /\ e = "Values"      -> 3
    [] parserState = 1 /\ e = "Name"        -> 8
    [] parserState = 1 /\ e = "Observed"    -> 5
    [] parserState = 2 /\ e = "Given"       -> 4
    [] parserState = 2 /\ e = "Table"       -> 6
    [] parserState = 2 /\ e = "For"         -> 7
    [] OTHER                                -> parserState

\* The object an opening tag begins.  An observation without a variable raises.
StartElement ==
  /\ Reported("startElement")
  /\ LET e == Head(events).what
         observed == parserState = 1 /\ e = "Observed"
     IN  /\ parserState' = Entered(e)
         /\ cVariable' = IF parserState = 0 /\ e = "Variable"
                         THEN [name |-> None, numVals |-> None] ELSE cVariable
         /\ cTable' = IF parserState = 0 /\ e = "Probability"
                      THEN [forVbl |-> None, given |-> <<>>, table |-> <<>>] ELSE cTable
         /\ cObs' = IF ~ observed THEN cObs
                    ELSE [variable |-> IF cVariable = Null THEN None ELSE cVariable.name,
                          value |-> None]
         /\ IF observed /\ cVariable = Null THEN Abandon ELSE GoOn
  /\ UNCHANGED <<cbuf, maps>>

Characters ==
  /\ Reported("characters")
  /\ cbuf' = IF parserState = 0 THEN cbuf ELSE Append(cbuf, Head(events).what)
  /\ GoOn
  /\ UNCHANGED <<parserState, current, maps>>

-----------------------------------------------------------------------------
Ended(e) == Reported("endElement") /\ Head(events).what = e /\ parserState # 0

\* A closing tag outside of the tags the handler cares about.
EndOutside ==
  /\ Reported("endElement")
  /\ parserState = 0
  /\ GoOn
  /\ UNCHANGED <<parserState, cbuf, current, maps>>

EndVariable ==
  /\ Ended("Variable")
  /\ cVariable # Null
  /\ parserState' = 0
  /\ variables' = Put(variables, cVariable.name, cVariable)
  /\ GoOn
  /\ UNCHANGED <<cbuf, current, obs, tables>>

EndObserved ==
  /\ Ended("Observed")
  /\ cObs # Null /\ Trim(cbuf) \in Numerals
  /\ parserState' = 1
  /\ cObs' = [cObs EXCEPT !.value = Trim(cbuf)]
  /\ obs' = Put(obs, cObs.variable, cObs')
  /\ cbuf' = <<>>
  /\ GoOn
  /\ UNCHANGED <<cVariable, cTable, variables, tables>>

EndName ==
  /\ Ended("Name")
  /\ cVariable # Null
  /\ parserState' = 1
  /\ cVariable' = [cVariable EXCEPT !.name = Trim(cbuf)]
  /\ cbuf' = <<>>
  /\ GoOn
  /\ UNCHANGED <<cObs, cTable, maps>>

EndValues ==
  /\ Ended("Values")
  /\ cVariable # Null /\ Trim(cbuf) \in Numerals
  /\ parserState' = 1
  /\ cVariable' = [cVariable EXCEPT !.numVals = Trim(cbuf)]
  /\ cbuf' = <<>>
  /\ GoOn
  /\ UNCHANGED <<cObs, cTable, maps>>

EndProbability ==
  /\ Ended("Probability")
  /\ cTable # Null
  /\ parserState' = 0
  /\ tables' = Put(tables, cTable.forVbl, cTable)
  /\ GoOn
  /\ UNCHANGED <<cbuf, current, variables, obs>>

\* parseTable takes the numbers between the white space.
InTable(e) ==
  CASE e = "Given" -> [cTable EXCEPT !.given = Append(@, Trim(cbuf))]
    [] e = "Table" -> [cTable EXCEPT !.table = SelectSeq(cbuf, LAMBDA p : p \notin White)]
    [] e = "For"   -> [cTable EXCEPT !.forVbl = Trim(cbuf)]

EndInTable ==
  /\ \E e \in {"Given", "Table", "For"} :
       /\ Ended(e)
       /\ cTable # Null
       /\ cTable' = InTable(e)
  /\ parserState' = 2
  /\ cbuf' = <<>>
  /\ GoOn
  /\ UNCHANGED <<cVariable, cObs, maps>>

EndOther ==
  /\ \E e \in {"Network", "Property"} : Ended(e)
  /\ cbuf' = <<>>
  /\ GoOn
  /\ UNCHANGED <<parserState, current, maps>>

\* A null pointer, or text that is no number.  Some of the tags have set the
\* state by then.
EndRaises ==
  /\ \/ \E e \in {"Variable", "Name", "Values"} : Ended(e) /\ cVariable = Null
     \/ \E e \in {"Probability", "Given", "Table", "For"} : Ended(e) /\ cTable = Null
     \/ Ended("Values") /\ Trim(cbuf) \notin Numerals
     \/ Ended("Observed") /\ (cObs = Null \/ Trim(cbuf) \notin Numerals)
  /\ LET e == Head(events).what
     IN  parserState' = CASE e \in {"Variable", "Probability"} -> 0
                          [] e \in {"Name", "Observed"}        -> 1
                          [] OTHER                             -> parserState
  /\ Abandon
  /\ UNCHANGED <<cbuf, current, maps>>

\* fatalError returns and the reader throws.
BreakOff ==
  /\ stage = "reading"
  /\ Abandon
  /\ UNCHANGED <<parserState, cbuf, current, maps>>

EndDocument ==
  /\ stage = "reading" /\ events = <<>>
  /\ stage' = "read"
  /\ UNCHANGED <<parserState, cbuf, current, maps, doc, events, clean, files>>

Next ==
  \/ \E d \in Documents : StartDocument(d)
  \/ StartElement \/ Characters
  \/ EndOutside \/ EndVariable \/ EndObserved \/ EndName \/ EndValues
  \/ EndProbability \/ EndInTable \/ EndOther \/ EndRaises
  \/ BreakOff \/ EndDocument

Spec == Init /\ [][Next]_vars

-----------------------------------------------------------------------------
Declared(kind) == {doc[k] : k \in {n \in DOMAIN doc : doc[n].kind = kind}}

VariableFirst == doc # <<>> /\ doc[1].kind = "variable"

SameMap(map, keyed) ==
  /\ DOMAIN map = {x[1] : x \in keyed}
  /\ \A x \in keyed : map[x[1]] = x[2]

(***************************************************************************)
(* When parse() returns, the maps main() builds the network from hold what *)
(* the document says: its variables with their numbers of values, its      *)
(* observations and its tables with their parents in order, and no more,   *)
(* and the handler is outside of all tags.  That is so after any sequence  *)
(* of documents, read or broken off, when the document declares a variable *)
(* first: its tags then lead the handler back to where they should have    *)
(* found it.  If a table comes first, the handler has to have been left    *)
(* outside of all tags.                                                    *)
(***************************************************************************)
NetworkRead ==
  stage = "read" /\ (clean \/ VariableFirst) =>
    /\ parserState = 0
    /\ SameMap(variables, {<<d.name, [name |-> d.name, numVals |-> d.values]>> :
                             d \in Declared("variable")})
    /\ SameMap(obs, {<<d.name, [variable |-> d.name, value |-> d.observed]>> :
                       d \in {x \in Declared("variable") : x.observed # None}})
    /\ SameMap(tables, {<<d.for, [forVbl |-> d.for, given |-> d.given,
                                  table |-> SelectSeq(d.table, LAMBDA p : p \notin White)]>> :
                          d \in Declared("probability")})
=============================================================================
