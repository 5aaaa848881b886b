---------------------------- MODULE MCPocRunner ----------------------------
(* A small instance of PocRunner: the texts a model may write.              *)
EXTENDS PocRunner, TLC

Draft1(errs, defective, does) == [errs |-> errs, defective |-> defective, run |-> does]
MCDrafts ==
    {Draft1({}, FALSE, does) : does \in {"exploit", "always", "inert", "untested"}}
    \cup {Draft1({}, TRUE, "always"),
          Draft1({"invented", "setup"}, FALSE, "exploit"),
          Draft1({"undeclared", "iface", "nested"}, FALSE, "exploit")}
Left(draft, base) == draft @@ ("base" :> base)
MCEmptyFolder == {[p \in Paths |-> NoFile]}
MCLeftFolders == MCEmptyFolder
    \cup {[a |-> NoFile, b |-> Left(Draft1({}, FALSE, "exploit"), base)] : base \in {Own, [name |-> "n", owner |-> 1]}}
    \cup {[a |-> NoFile, b |-> Left(Draft1({"invented"}, FALSE, "exploit"), Own)]}
Task(file, title) == [file |-> file, title |-> title]
OwnTitle == {"finalizefee", "wrong", "rounding"}
BorrowingTitle == {"finalizefee", "slot", "limit", "window", "cap"}
MCListings ==
    {<<Task("a", {"reentrant"}), Task("b", OwnTitle)>>, <<Task("a", {"reentrant"}), Task("a", BorrowingTitle)>>}
MCListingsOfThree == {<<Task("a", {"reentrant"}), Task("b", OwnTitle), Task("c", BorrowingTitle)>>}
(* The base most tests inherit deploys no vault, nor does its parent.       *)
MCNeeds == [t \in Tasks |-> IF t < 3 THEN {"vault"} ELSE {"token"}]
MCInheritedBy == [base |-> 2, other |-> 1, parent |-> 0]
MCProvides == [base |-> {"token"}, other |-> {"vault"}, parent |-> {"oracle"}]
MCParents == [base |-> {"parent"}, other |-> {}, parent |-> {}]

(* The target's source, and a report whose section on reserved slots shares *)
(* a component with the one on the fee.                                     *)
Line(text) == [indent |-> 1, text |-> text]
Body(kind, text) == [kind |-> kind, line |-> Line(text)]
Fees == [i \in 1..8 |-> Line(<<"finalize", "owed = fee", "pay", "end", "slots", "free", "cap", "end">>[i])]
MCProject == [fees |-> Fees]
MCBugs == [t \in Tasks |-> [path |-> "fees", line |-> Line(IF t = 3 THEN "free" ELSE "owed = fee")]]
Block(hunks) == [kind |-> "illustrative", files |-> <<[path |-> "fees", hunks |-> hunks]>>]
MCReport ==
    <<[heading |-> {"finalizefee", "slot", "reserved", "wrong"},
       block |-> Block(<<[anchor |-> "slots", body |-> <<Body("removal", "free"), Body("addition", "held")>>]>>)],
      [heading |-> {"finalizefee", "rounding", "wrong", "owner"},
       block |-> Block(<<[anchor |-> "finalize", body |-> <<Body("removal", "owed = fee"),
                                    Body("addition", "owed = up"), Body("context", "pay")>>]>>)],
      [heading |-> {"wrong", "owner"}, block |-> NoBlock]>>
MCLongWords == {"finalizefee", "rounding", "reserved"}

(* Hunks of every shape: any at all on short sources; pairs in any order     *)
(* that are right about the source on longer ones.                           *)
Kinds == {"context", "removal", "addition"}
Lines == {[indent |-> i, text |-> "x"] : i \in 0..1} \cup {[indent |-> 0, text |-> "y"]}
ShortSources == [1..3 -> Lines]
AnyHunks ==
    LET body == [kind : Kinds, line : Lines]
    IN  [anchor : {"x", "y"}, body : {<<>>} \cup {<<b>> : b \in body} \cup {<<b, c>> : b \in body, c \in body}]
LongSources ==
    {[i \in 1..8 |-> Line(<<"a", "b", "c", "d", "e", "f", "g", "h">>[i])],
     [i \in 1..8 |-> Line(<<"a", "b", "b", "c", "b", "b", "d", "b">>[i])]}
(* The body of these kinds that the source after the anchor bears out.       *)
BornOut(source, at, kinds) ==
    [k \in DOMAIN kinds |->
        [kind |-> kinds[k],
         line |-> IF kinds[k] = "addition" THEN Line("new")
                  ELSE source[at + Cardinality({j \in 1..k : kinds[j] # "addition"})]]]
RightHunks(source) ==
    {[anchor |-> source[at].text, body |-> BornOut(source, at, kinds)] :
        at \in {i \in 1..6 : Cardinality(Hits(source, source[i].text)) = 1},
        kinds \in UNION {[1..n -> Kinds] : n \in 1..2}}
MCTrials ==
    [source : ShortSources, hunks : {<<h>> : h \in AnyHunks}]
    \cup UNION {[source : {s}, hunks : {<<g, h>> : g \in RightHunks(s), h \in RightHunks(s)}] : s \in LongSources}
MCBaseErrors == {{}, {"path", "nested", "iface"}, {"invented"}}
=============================================================================
