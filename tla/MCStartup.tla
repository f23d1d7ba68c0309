----------------------------- MODULE MCStartup -----------------------------
(* A daemon with each state of its pid file; three libraries, one of them    *)
(* loaded twice; a database, that is started three times: to create, to      *)
(* upgrade, and after that; one that does not open, one without a driver.    *)
EXTENDS Startup

CONSTANTS plain, other, script, both

MCProvides == [l \in Library |-> IF l \in {plain, other} THEN {"initialize"}
                                 ELSE IF l = script THEN {"execute"}
                                 ELSE {"initialize", "execute"}]
Quiet == [optdaemon |-> FALSE, libraries |-> <<>>, datasource |-> "none", pidfile |-> "absent",
          starts |-> 2]
Daemon(file) == [Quiet EXCEPT !.optdaemon = TRUE, !.pidfile = file]
MCConfig == {Daemon(file) : file \in {"absent", "empty", "directory", "stale", "unended",
                                     "alive", "text"}}
            \union {[Quiet EXCEPT !.libraries = <<plain, script, other, plain>>],
                    [Quiet EXCEPT !.datasource = "opens", !.starts = 3],
                    [Quiet EXCEPT !.libraries = <<script, both, other>>, !.datasource = "fails"],
                    [Quiet EXCEPT !.libraries = <<plain>>, !.datasource = "unknown"]}
=============================================================================
