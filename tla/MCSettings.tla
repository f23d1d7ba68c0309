----------------------------- MODULE MCSettings -----------------------------
(* A file that is not there, one that says little, without and with more     *)
(* -v on the command line than there are levels, and one whose entry for all *)
(* classes comes after the one for app.                                      *)
EXTENDS Settings

CONSTANTS own_c, self_c, app

MCClass == {own_c, self_c, app}

Poor == [opens |-> TRUE, cmdline |-> 0, verbosity |-> Absent, classes |-> <<>>]
Missing == [Poor EXCEPT !.opens = FALSE]
Verbose == [Poor EXCEPT !.cmdline = 5]
Full == [opens |-> TRUE, cmdline |-> 0, verbosity |-> WARN,
         classes |-> <<[name |-> app, verbosity |-> Absent, target |-> Bad],
                       [name |-> Absent, verbosity |-> 3, target |-> Absent]>>]
MCFile == {Missing, Poor, Verbose, Full}
=============================================================================
