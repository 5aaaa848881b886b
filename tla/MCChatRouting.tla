--------------------------- MODULE MCChatRouting ---------------------------
(* One session, two requests to the slots, one hosted key in the             *)
(* environment, and models that may answer with anything the code tells      *)
(* apart.                                                                    *)
EXTENDS ChatRouting

CONSTANTS r1, r2, none

Finding(severity, tagged) == [severity |-> severity, tagged |-> tagged]
Ask(name, arg) == [name |-> name, arg |-> arg]
Post(s, backend, key) == [slot |-> s, backend |-> backend, key |-> key]

MCPosts == {Post("main", "paid", "cleared"), Post("main", "openrouter", "keep"),
            Post("main", "keep", "given"), Post("main", "unknown", "given"),
            Post("additional", "paid", "keep"), Post("additional", "openrouter", "given"),
            Post("additional", "openrouter", "keep"), Post("additional", "keep", "cleared"),
            Post("additional", "local", "keep"), Post("additional", "off", "keep")}
MCReports == {Finding("low", FALSE), Finding("high", TRUE), Finding("high", FALSE),
              Finding("critical", TRUE), Finding("severe", TRUE)}
MCAsks == {Ask("complete", "none"), Ask("grep", "good"), Ask("read_file", "good"),
           Ask("read_file", "bad"), Ask("write_poc", "good"), Ask("analyze_transactions", "text")}
============================================================================
