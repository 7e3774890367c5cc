--------------------------------- MODULE MCUp ---------------------------------
(* Command lines for Up: one fleet name, flags that change the pool, the   *)
(* model or both, flags that are refused, and a dry run.                   *)
EXTENDS Up

MCPoolName == <<"m", "pool">>

Typed == [name |-> "m", product |-> "H100", needles |-> {"h100"}, mem |-> GiB(80),
          compute |-> "9.0", gpus |-> 1, nvlink |-> 0, numa |-> FALSE, selector |-> << >>,
          dra |-> TRUE, ext |-> TRUE, mode |-> "none", profiles |-> << >>,
          partition |-> << >>, busy |-> 0]

Double   == [Typed EXCEPT !.gpus = 2, !.busy = 1]
Mig      == [Typed EXCEPT !.mode = "mig"]
OneSize  == [Mig EXCEPT !.profiles = <<<<1, 10>>>>]
Static   == [Mig EXCEPT !.partition = <<[profile |-> <<3, 40>>, count |-> 2]>>]
Overfull == [Mig EXCEPT !.partition = <<[profile |-> <<3, 40>>, count |-> 3]>>]

Command(flags) == [flags |-> flags, dry |-> FALSE, wait |-> TRUE]

\* Static after OneSize is refused while the operator still has OneSize's model.
MCRuns == {Command(Double), Command(OneSize), Command(Static), Command(Overfull),
           [Command(Typed) EXCEPT !.wait = FALSE], [Command(Mig) EXCEPT !.dry = TRUE]}

ReapplyRuns == {Command(Mig), Command(OneSize)}
=============================================================================
