-------------------------- MODULE MCDeclaredNames --------------------------
(* cwrap, one model at a time: the names in a file that it reads, in the    *)
(* scopes of the parser and in the expansion of block macros, and what it   *)
(* makes of a command line.  A behaviour is one of the model it begins      *)
(* with; the others stand still.                                            *)
EXTENDS DeclaredNames

VARIABLES model, source, output, rejected,
          cmd, holds, plan, at, nobj, files, stdout, untranslated, status, pc

(* va_list and T share a bucket of the smaller table, of the larger none.   *)
MCHash == [x \in Names |-> IF x = "a" THEN 1 ELSE IF x = "T" THEN 0 ELSE 2]

MCBuiltins == <<"va_list">>

Macros == INSTANCE BlockMacros

(* Sources of one name in two directories, other inputs between sources,    *)
(* the same file under two paths.                                           *)
A1 == <<"x", "a", "c">>
A2 == <<"y", "a", "c">>
B == <<"", "b", "c">>
Src(path) == [is |-> "source", path |-> path]
In(path) == [is |-> "input", path |-> path]
Flag(name, stage) == [is |-> "flag", name |-> name, stage |-> stage]
Instead(name) == [is |-> "instead", name |-> name]

MCInputs ==
  {<<Src(A1)>>, <<Src(A1), Src(A2)>>, <<Src(B), In(<<"", "m", "o">>), Src(A1)>>,
   <<In(<<"", "b", "s">>), Src(B)>>, <<In(<<"", "m", "o">>)>>, <<Src(B), Instead("-")>>}
MCModes == {<<>>, <<[is |-> "mode", mode |-> "-c"]>>, <<[is |-> "mode", mode |-> "-S"]>>,
            <<[is |-> "mode", mode |-> "-translate"]>>,
            <<Instead("-E"), [is |-> "mode", mode |-> "-translate"]>>, <<Instead("-M")>>}
MCOutputs == {<<>>} \union {<<[is |-> "output", path |-> p]>> : p \in {<<>>, <<"", "prog", "">>, <<".", "b", "c">>}}
MCFlags == {<<>>, <<Flag("-MD", "pp"), Flag("-DN", "pp"), Flag("-lm", "link"), Flag("-O2", "all")>>,
            <<[is |-> "dimension", n |-> 2]>>, <<[is |-> "dimension", n |-> 4]>>}
MCCommands ==
  {[args |-> f \o m \o i \o o, keep |-> k] :
     f \in MCFlags, m \in MCModes, i \in MCInputs, o \in MCOutputs, k \in BOOLEAN}

Cwrap == INSTANCE Driver WITH Commands <- MCCommands, Sources <- {A1, A2, B},
                              Kinds <- {"fine", "odd", "rejected", "broken"}

parserVars == <<st, frames, decls, opened, errors, odd>>
macroVars == <<source, output, rejected>>
driverVars == <<cmd, holds, plan, at, nobj, files, stdout, untranslated, status, pc>>

NamesInit ==
    /\ model \in {"parser", "macros", "driver"}
    /\ Init
    /\ IF model = "macros" THEN Macros!Init
       ELSE source = [main |-> <<>>] /\ output = <<>> /\ rejected = FALSE
    /\ IF model = "driver" THEN Cwrap!Init
       ELSE /\ cmd = <<>> /\ holds = <<>> /\ plan = <<>> /\ at = 0 /\ nobj = 0 /\ files = <<>>
            /\ stdout = <<>> /\ untranslated = FALSE /\ status = 0 /\ pc = ""

ParserNext == model = "parser" /\ Next /\ UNCHANGED <<model, macroVars, driverVars>>
MacrosNext == model = "macros" /\ Macros!Next /\ UNCHANGED <<model, parserVars, driverVars>>
DriverNext == model = "driver" /\ Cwrap!Next /\ UNCHANGED <<model, parserVars, macroVars>>

NamesNext == ParserNext \/ MacrosNext \/ DriverNext

NamesSpec == NamesInit /\ [][NamesNext]_<<model, parserVars, macroVars, driverVars>>

(* The property of BlockMacros.                                             *)
Hygienic == model = "macros" => Macros!Hygienic

(* The property of Driver.                                                  *)
ExitsTruly == model = "driver" => Cwrap!ExitsTruly
=============================================================================
