---------------------------- MODULE SolidityText ----------------------------
(* What the PoC runner and its compile fixers (scripts/solidity_fixers.py)   *)
(* tell of a Solidity text: the classes of compile error in it, whether it   *)
(* is structurally real, what its test does, and the deploy base it inherits.*)
EXTENDS Naturals

(* "path": an import of the right file at the wrong depth. "nested": a named *)
(* import of a type declared inside a contract. "base": the wrong contract   *)
(* inherited. "undeclared": a known symbol not imported. "iface": an address *)
(* passed for a contract. "setup": setUp overrides a non-virtual one.        *)
(* "invented": anything no fixer knows.                                      *)
Errors == {"path", "nested", "base", "undeclared", "iface", "setup", "invented"}

(* A file that imports a base no longer there, or not the one it was written *)
(* for, fails with an error none of its own.                                 *)
Gone == "gone"

(* solc stops at the first phase that fails, and reports that phase only.    *)
ImportErrors == {"path", "nested", Gone}
NameErrors == {"base", "undeclared"}
Reported(errs) ==
    IF errs \cap ImportErrors # {} THEN errs \cap ImportErrors
    ELSE IF errs \cap NameErrors # {} THEN errs \cap NameErrors
    ELSE errs

(* What the test does once it is built. "exploit" passes only while the bug  *)
(* is there, "always" passes with or without it, "inert" fails, "untested"   *)
(* declares no test function at all.                                         *)
Behaviours == {"exploit", "always", "inert", "untested"}

(* Structural defects (no active assertion, the target mocked or not         *)
(* imported) are one flag: a text has some or none.                          *)
Texts(Bases) == [errs: SUBSET Errors, defective: BOOLEAN, run: Behaviours, base: Bases]

(* forge prints "Ran n tests" only for a suite it built and executed.        *)
Ran(text) == text.run # "untested"

(* _fix_setup_override, _fix_import_paths, _fix_nested_type_imports and      *)
(* _fix_scaffold_base work from the text and the project alone;              *)
(* _fix_undeclared_import and _fix_address_interface repair what the failing *)
(* compile reports.                                                          *)
FixSetupOverride(errs) == errs \ {"setup"}
FixImportPaths(errs) == errs \ {"path"}
FixNestedTypeImports(errs) == errs \ {"nested"}
FixScaffoldBase(errs) == errs \ {"base"}
FixUndeclaredImport(errs, reported) == errs \ ({"undeclared"} \cap reported)
FixAddressInterface(errs, reported) == errs \ ({"iface"} \cap reported)

(* The four sequences, one per site; a sequence "applied" something when the *)
(* text it returns differs.                                                  *)
SeqSynthPrewrite(errs) == FixImportPaths(errs)
SeqSynthRepair(errs, reported) ==
    FixAddressInterface(FixNestedTypeImports(FixImportPaths(errs)), reported)
SeqDraftInplace(errs, reported) ==
    FixAddressInterface(FixUndeclaredImport(errs, reported), reported)
SeqPostmodel(errs, scaffolded) ==
    LET fixed == FixNestedTypeImports(FixImportPaths(errs))
    IN  IF scaffolded THEN FixScaffoldBase(FixSetupOverride(fixed)) ELSE fixed
=============================================================================
