------------------------------- MODULE Driver -------------------------------
(***************************************************************************)
(* cwrap, the front end of gcc (driver.c, translate_file ()): each .c file *)
(* is preprocessed by gcc, translated, and compiled by gcc; what that made *)
(* is linked.                                                              *)
(*                                                                         *)
(* A path is <<directory, stem, extension>>, in the directory of           *)
(* intermediate files <<"tmp", number, stem, extension>>; "." is the       *)
(* directory "".  The content of a file is a term that says what it was    *)
(* made of, with which flags.  gcc is external: it fails on some files,    *)
(* and may fail on any; what it could not make it removes.                 *)
(***************************************************************************)
EXTENDS Integers, Sequences, FiniteSets, SequencesExt

CONSTANTS
  Commands,     \* what cwrap may be called with: [args, keep]
  Sources,      \* the .c files there are
  Kinds         \* of them, a subset of {"fine", "odd", "rejected", "broken"}

None == <<>>

VARIABLES
  cmd,          \* argv [], and whether CWRAP_KEEP is set
  holds,        \* for each source, its kind
  plan,         \* what main () made of the arguments
  at,           \* the item main () is at
  nobj,         \* how many sources it has begun
  files, stdout,
  untranslated, \* a file was copied by -translate
  status,       \* what cwrap exits with
  pc

vars == <<cmd, holds, plan, at, nobj, files, stdout, untranslated, status, pc>>
-----------------------------------------------------------------------------
(* The arguments in turn.  A flag is for every run of gcc ("all"), for      *)
(* preprocessing ("pp") or for linking ("link"); the rest are files, modes, *)
(* -o, and what gcc is to do instead ("-E", "-M", "-").                     *)
NoPlan ==
  [items |-> <<>>, nsrc |-> 0, ninputs |-> 0, output |-> None, modes |-> {}, passthrough |-> FALSE,
   not_with_translate |-> FALSE, other_sources |-> FALSE, deps |-> FALSE, dimension |-> 0,
   died |-> FALSE]

Kept(p, a) == [p EXCEPT !.items = Append(@, a)]

Argument(p, a) ==
  CASE p.died -> p
    [] a.is = "dimension" ->
         IF a.n \in 1..3 THEN [p EXCEPT !.dimension = a.n] ELSE [p EXCEPT !.died = TRUE]
    [] a.is = "source" -> [Kept(p, a) EXCEPT !.nsrc = @ + 1]
    [] a.is = "input" -> [Kept(p, a) EXCEPT !.ninputs = @ + 1, !.other_sources = @ \/ a.path[3] = "s"]
    [] a.is = "mode" -> [p EXCEPT !.modes = @ \union {a.mode}]
    [] a.is = "output" -> IF a.path = None THEN [p EXCEPT !.died = TRUE] ELSE [p EXCEPT !.output = a.path]
    [] a.is = "instead" -> [Kept(p, a) EXCEPT !.passthrough = TRUE, !.not_with_translate = @ \/ a.name # "-E"]
    [] a.is = "flag" -> [Kept(p, a) EXCEPT !.deps = @ \/ a.name = "-MD"]

Planned(args) == FoldLeft(Argument, NoPlan, args)

(* -translate has its own rules, and does not compile *)
Translates(p) == "-translate" \in p.modes
TranslateRefused(p) ==
  Translates(p) /\ (p.not_with_translate \/ p.nsrc = 0 \/ (p.output # None /\ p.nsrc > 1))

Suffix(p) == IF "-S" \in p.modes THEN "s" ELSE "o"
CompilesOnly(p) == ~Translates(p) /\ p.modes # {}

(* all of it is gcc's: nothing to translate *)
HandedOver(p) == (p.passthrough /\ ~Translates(p)) \/ p.nsrc = 0

Real(path) == IF path[1] = "." THEN [path EXCEPT ![1] = ""] ELSE path

(* same_file (): by what they are, not by name *)
SameFile(a, b) == Real(a) = Real(b) /\ Real(a) \in DOMAIN files

SourcesOf(p) == SelectSeq(p.items, LAMBDA a : a.is = "source")

Refused(p) ==
  \/ p.output # None /\ \E i \in DOMAIN p.items :
        p.items[i].is = "source" /\ SameFile(p.items[i].path, p.output)
  \/ CompilesOnly(p) /\ ((p.output # None /\ p.nsrc > 1) \/ p.other_sources)

(* add_stage_flags () *)
StageOf(a) == CASE a.is = "instead" -> "all" [] a.is = "flag" -> a.stage [] OTHER -> "input"

FlagsFor(p, stage) ==
  {p.items[i].name : i \in {j \in DOMAIN p.items : StageOf(p.items[j]) = stage}}
-----------------------------------------------------------------------------
\* Faulty variant for a mutation run: intermediate files go by their stem.
TempName_ByStem(n, path, suffix) == <<"tmp", 0, path[2], suffix>>

TempName(n, path, suffix) == <<"tmp", n, path[2], suffix>>

Source == plan.items[at].path
Pre  == TempName(nobj, Source, "i")
Post == TempName(nobj, Source, "t.i")

(* the intermediate object of the n-th source, or the file that -c and -S name *)
ResultOf(n, path) ==
  CASE CompilesOnly(plan) -> IF plan.output # None THEN plan.output ELSE <<"", path[2], Suffix(plan)>>
    [] Translates(plan) -> IF plan.output # None THEN plan.output ELSE <<"", path[2], "">>
    [] OTHER -> TempName(n, path, "o")

DepFile == LET r == ResultOf(nobj, Source) IN [r EXCEPT ![Len(r)] = "d"]

Put(fs, path, content) == [f \in DOMAIN fs \union {Real(path)} |-> IF f = Real(path) THEN content ELSE fs[f]]
Drop(fs, path) == [f \in DOMAIN fs \ {Real(path)} |-> fs[f]]

Goto(step) == pc' = step
Exit(rc) == status' = rc /\ Goto("exit")

(* main () up to the directory of intermediate files; a command that is     *)
(* handed over becomes a run of gcc, with the dimension as a macro          *)
ReadArguments ==
  /\ pc = "start"
  /\ LET p == Planned(cmd.args)
     IN  /\ plan' = p
         /\ IF p.died \/ TranslateRefused(p) THEN Exit(1)
            ELSE IF HandedOver(p) THEN Goto("handed") /\ UNCHANGED status
            ELSE IF Refused(p) THEN Exit(1)
            ELSE Goto("next") /\ UNCHANGED status
  /\ UNCHANGED <<cmd, holds, at, nobj, files, stdout, untranslated>>

(* the next source; when there is none, the end of -translate, -c and -S *)
NextItem ==
  /\ pc = "next"
  /\ at' = at + 1
  /\ IF at < Len(plan.items)
     THEN Goto(IF plan.items[at + 1].is = "source" THEN "preprocess" ELSE "next") /\ UNCHANGED status
     ELSE CASE Translates(plan) -> Exit(IF untranslated THEN 1 ELSE 0)
            [] CompilesOnly(plan) -> Exit(0)
            [] OTHER -> Goto("link") /\ UNCHANGED status
  /\ UNCHANGED <<cmd, holds, plan, nobj, files, stdout, untranslated>>

(* a run of gcc that makes 'path', and goes on or ends cwrap *)
GccMakes(path, content, able, then) ==
  \/ able /\ files' = Put(files, path, content) /\ Goto(then) /\ UNCHANGED status
  \/ files' = Drop(files, path) /\ Exit(2)

Preprocess ==
  /\ pc = "preprocess"
  /\ LET content == <<"preprocessed", files[Real(Source)], FlagsFor(plan, "all") \union FlagsFor(plan, "pp"), plan.dimension>>
     IN  \/ /\ holds[Real(Source)] # "broken"
            /\ files' = LET fs == Put(files, Pre, content)
                        IN  IF plan.deps THEN Put(fs, DepFile, <<"depends", files[Real(Source)]>>) ELSE fs
            /\ Goto("translate") /\ UNCHANGED status
         \/ files' = Drop(files, Pre) /\ Exit(2)
  /\ UNCHANGED <<cmd, holds, plan, at, nobj, stdout, untranslated>>

(* translate_file (): a file with errors of cwrap's own is not written, one *)
(* that it cannot parse is copied, and a write may fail half way            *)
Translation(content) ==
  IF holds[Real(Source)] = "odd" THEN content ELSE <<"translated", content>>

Target == IF Translates(plan) /\ plan.output # None THEN plan.output ELSE Post

Translate ==
  /\ pc = "translate"
  /\ \/ holds[Real(Source)] = "rejected" /\ Exit(1) /\ UNCHANGED <<files, untranslated>>
     \/ /\ holds[Real(Source)] # "rejected"
        /\ files' = Put(files, Target, <<"part">>)
        /\ Exit(1) /\ UNCHANGED untranslated
     \/ /\ holds[Real(Source)] # "rejected"
        /\ files' = Put(files, Target, Translation(files[Pre]))
        /\ untranslated' = (untranslated \/ holds[Real(Source)] = "odd")
        /\ Goto(CASE ~Translates(plan) -> "compile"
                  [] plan.output = None -> "write"
                  [] OTHER -> "done")
        /\ UNCHANGED status
  /\ UNCHANGED <<cmd, holds, plan, at, nobj, stdout>>

(* write_to_stdout () *)
WriteToStdout ==
  /\ pc = "write"
  /\ \/ stdout' = Append(stdout, files[Post]) /\ Goto("done") /\ UNCHANGED status
     \/ stdout' = Append(stdout, <<"part">>) /\ Exit(1)
  /\ UNCHANGED <<cmd, holds, plan, at, nobj, files, untranslated>>

Compile ==
  /\ pc = "compile"
  /\ GccMakes(ResultOf(nobj, Source), <<Suffix(plan), files[Post], FlagsFor(plan, "all")>>, TRUE, "done")
  /\ UNCHANGED <<cmd, holds, plan, at, nobj, stdout, untranslated>>

Done ==
  /\ pc = "done"
  /\ nobj' = nobj + 1
  /\ Goto("next")
  /\ UNCHANGED <<cmd, holds, plan, at, files, stdout, untranslated, status>>

(* the objects and the other inputs in the order of the command line *)
LinkInputs ==
  LET numbered(i) == Cardinality({j \in 1..i : plan.items[j].is = "source"}) - 1
      name(i) == IF plan.items[i].is = "source" THEN TempName(numbered(i), plan.items[i].path, "o")
                                                ELSE Real(plan.items[i].path)
      linked == SelectSeq([i \in DOMAIN plan.items |-> i],
                          LAMBDA i : plan.items[i].is \in {"source", "input"})
  IN  [k \in DOMAIN linked |-> files[name(linked[k])]]

Program == IF plan.output # None THEN plan.output ELSE <<"", "a", "out">>

Link ==
  /\ pc = "link"
  /\ \/ /\ files' = Put(files, Program, <<"program", LinkInputs, FlagsFor(plan, "all") \union FlagsFor(plan, "link")>>)
        /\ Exit(0)
     \/ files' = Drop(files, Program) /\ Exit(2)
  /\ UNCHANGED <<cmd, holds, plan, at, nobj, stdout, untranslated>>

(* cleanup (), at exit *)
InTmp(path) == path[1] = "tmp"

Cleanup ==
  /\ pc = "exit"
  /\ files' = IF cmd.keep THEN files ELSE [f \in {g \in DOMAIN files : ~InTmp(g)} |-> files[f]]
  /\ Goto("gone")
  /\ UNCHANGED <<cmd, holds, plan, at, nobj, stdout, untranslated, status>>
-----------------------------------------------------------------------------
(* What there is before: the sources, and files that the command may name.  *)
Written(path) == <<"written", path>>

Init ==
  /\ cmd \in Commands
  /\ LET named == {Real(cmd.args[i].path) : i \in {j \in DOMAIN cmd.args : cmd.args[j].is \in {"source", "input"}}}
     IN  /\ files = [f \in named |-> Written(f)]
         /\ holds \in [named \intersect Sources -> Kinds]
  /\ plan = NoPlan /\ at = 0 /\ nobj = 0 /\ stdout = <<>>
  /\ untranslated = FALSE /\ status = 0 /\ pc = "start"

Next ==
  \/ ReadArguments \/ NextItem \/ Preprocess \/ Translate \/ WriteToStdout \/ Compile \/ Done
  \/ Link \/ Cleanup

Spec == Init /\ [][Next]_vars
-----------------------------------------------------------------------------
(* For comparison: what the README says is made of a source.                *)
FlagsBut(stages) ==
  {cmd.args[i].name : i \in {j \in DOMAIN cmd.args :
     \/ cmd.args[j].is = "instead"
     \/ cmd.args[j].is = "flag" /\ cmd.args[j].stage \notin stages}}

Preprocessed(a) == <<"preprocessed", Written(Real(a.path)), FlagsBut({"link"}), plan.dimension>>
Meant(a) == IF holds[Real(a.path)] = "odd" THEN Preprocessed(a) ELSE <<"translated", Preprocessed(a)>>
Made(a) == <<Suffix(plan), Meant(a), FlagsBut({"pp", "link"})>>

(* What cwrap exits with is true (main ()): with 0, every source was        *)
(* accepted and what was asked for is there, each part made of its own      *)
(* source with the flags of its stage and in the order of the command line, *)
(* sources of the same name in two directories included.  Otherwise linking *)
(* leaves no program; -c and -S leave the results of the sources that were  *)
(* done before the failure, whole, and none of the source that failed.  No  *)
(* source is changed, and the intermediate files are gone but for           *)
(* CWRAP_KEEP.                                                              *)
ExitsTruly ==
  pc = "gone" =>
    LET sources == SourcesOf(plan)
        inputs == SelectSeq(plan.items, LAMBDA a : a.is \in {"source", "input"})
        last(k) == \A m \in DOMAIN sources :
                      ResultOf(m, sources[m].path) = ResultOf(k, sources[k].path) => m <= k
    IN  /\ \A f \in DOMAIN files : f \in DOMAIN holds => files[f] = Written(f)
        /\ DOMAIN holds \subseteq DOMAIN files
        /\ ~cmd.keep => \A f \in DOMAIN files : ~InTmp(f)
        /\ status = 0 =>
             /\ \A k \in DOMAIN sources : holds[Real(sources[k].path)] \notin {"rejected", "broken"}
             /\ CASE Translates(plan) /\ plan.output = None -> stdout = [k \in DOMAIN sources |-> Meant(sources[k])]
                  [] Translates(plan) -> files[Real(plan.output)] = Meant(sources[1])
                  [] CompilesOnly(plan) ->
                       \A k \in DOMAIN sources : last(k) =>
                          files[Real(ResultOf(k, sources[k].path))] = Made(sources[k])
                  [] OTHER ->
                       files[Real(Program)] =
                         <<"program",
                           [k \in DOMAIN inputs |-> IF inputs[k].is = "source" THEN Made(inputs[k])
                                                                               ELSE Written(Real(inputs[k].path))],
                           FlagsBut({"pp"})>>
        /\ status # 0 /\ plan.nsrc > 0 /\ plan.modes = {} /\ ~plan.died =>
             (plan.output # None /\ Refused(plan)) \/ Real(Program) \notin DOMAIN files
        /\ status # 0 /\ CompilesOnly(plan) /\ ~plan.died =>
             \A k \in DOMAIN sources :
                LET result == ResultOf(k, sources[k].path)
                    done == {m \in 1..nobj : ResultOf(m, sources[m].path) = result}
                IN  Real(result) \in DOMAIN files =>
                      files[Real(result)] \in {Written(Real(result))} \union {Made(sources[m]) : m \in done}
=============================================================================
