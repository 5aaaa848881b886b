--------------------------- MODULE MCAuditReport ---------------------------
(* Small instances of AuditReport: a vault SmartGraphical has a graph of,    *)
(* with a cycle of calls and an inherited function, and a token known from   *)
(* its text only.                                                            *)
EXTENDS AuditReport, TLC

Function(name, reads, writes, calls) ==
    [name |-> name, reads |-> reads, writes |-> writes, calls |-> calls]

VaultText ==
    <<Function("withdraw", {"limit"}, {}, {"debit"}), Function("sweep", {"balance"}, {}, {})>>
VaultGraph ==
    <<Function("withdraw", {"limit"}, {}, {"debit"}), Function("debit", {}, {}, {"burn"}),
      Function("sweep", {"balance"}, {}, {}), Function("burn", {}, {"balance"}, {"debit"}),
      Function("pause", {}, {"paused"}, {})>>
TokenText ==
    <<Function("mint", {"cap"}, {"supply"}, {}), Function("burn", {"supply", "limit"}, {"limit"}, {}),
      Function("mint", {"supply"}, {}, {})>>

MCCode == [vault |-> VaultText, token |-> TokenText]
MCDeclared == [vault |-> {"limit"}, token |-> {"supply", "cap"}]
MCGraphs == [vault |-> VaultGraph, token |-> <<>>]

Payload(id, file, function, engine, severity, mitigated) ==
    [id |-> id, file |-> file, function |-> function, engine |-> engine,
     at |-> IF engine = "static" THEN "47" ELSE function,
     severity |-> severity, mitigated |-> mitigated]

CONSTANTS r1, r2, r3

MCPayloads ==
    {(r1 :> Payload("F-1", "vault", "withdraw", "model", 3, FALSE)
      @@ r2 :> Payload("F-2", "vault", "sweep", "model", 2, FALSE)
      @@ r3 :> Payload("F-3", "vault", "pause", "model", 3, FALSE)),
     (r1 :> Payload("F-1", "token", "mint", "model", 3, FALSE)
      @@ r2 :> Payload("F-1", "token", "burn", "model", 4, TRUE)
      @@ r3 :> Payload("SLITHER-001", "vault", "withdraw", "static", 3, FALSE)),
     (r1 :> Payload("F-1", "elsewhere", "mint", "model", 3, FALSE)
      @@ r2 :> Payload("F-2", "elsewhere", "burn", "model", 3, TRUE)
      @@ r3 :> Payload("F-1", "elsewhere", "mint", "model", 3, FALSE))}

MCStaticPayloads ==
    {(r1 :> Payload("F-1", "vault", "withdraw", "model", 3, FALSE)
      @@ r2 :> Payload("SLITHER-001", "vault", "sweep", "static", 3, FALSE)
      @@ r3 :> Payload("F-2", "vault", "sweep", "model", 3, FALSE))}

MCContents == {{}, {1, 2, 3, 4}}
Symmetry == Permutations(Targets)
=============================================================================
