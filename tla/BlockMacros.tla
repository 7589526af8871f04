----------------------------- MODULE BlockMacros -----------------------------
(***************************************************************************)
(* The block macros of libc-pp: `@loop name (params) : names { ... {...} }' *)
(* defines a loop; a use, `name (args) block', is replaced by a copy of    *)
(* the body, with the block at {...}.  What is copied keeps the bindings   *)
(* that the parser gave its names, and by these loop_expand () renames     *)
(* what the block is not to see (parser.y, translate.c).                   *)
(*                                                                         *)
(* A program is the definition of loop 1, that of loop 2, which may use    *)
(* loop 1, perhaps loop 1 defined again, as by a header that is included   *)
(* twice, and statements with uses of both.  A place is the path to a      *)
(* statement: the definition it is in, then an index at each depth.        *)
(***************************************************************************)
EXTENDS Integers, Sequences, SequencesExt, TLC

VARIABLES
  source,
  output,       \* the statements that gcc gets
  rejected      \* did cwrap report an error?

vars == <<source, output, rejected>>
-----------------------------------------------------------------------------
(***************************************************************************)
(* What a program is made of.                                              *)
(***************************************************************************)
Declares(name, init) == [is |-> "decl", name |-> name, init |-> init]
UsesName(name) == [is |-> "use", name |-> name]
InBraces(body) == [is |-> "block", body |-> body]
Here == [is |-> "here"]
LoopUse(loop, args, body) == [is |-> "loop", loop |-> loop, args |-> args, body |-> body]
Param(name, type) == [name |-> name, type |-> type]

\* A name as the program has it, and one that cwrap makes up.
Plain(name) == [name |-> name, of |-> 0, at |-> <<>>]
MadeUp(name, loop, at) == [name |-> name, of |-> loop, at |-> at]

\* A token that is a name: its text, and its binding, the declaration at a
\* place (<<>> when there is none), of the loop that is defined there.  means is
\* history: the declaration that the name is to mean, in the copy made for the
\* uses at copies.
Token(text, place, loop) ==
  [text |-> text, place |-> place, loop |-> loop, means |-> [place |-> place, copies |-> <<>>]]
Global(name) == Token(Plain(name), <<>>, 0)
IsGlobal(m) == m.place = <<>>
Lookup(env, name) == IF name \in DOMAIN env THEN env[name] ELSE Global(name)
LookupAll(env, names) == [i \in 1..Len(names) |-> Lookup(env, names[i])]
-----------------------------------------------------------------------------
(***************************************************************************)
(* loop_expand ().  def is a definition as it was parsed; given is what    *)
(* the block saw for each name listed.                                     *)
(***************************************************************************)
Injected(text, def) == text \in {Plain(def.injects[i]) : i \in DOMAIN def.injects}

\* What a name is to mean in a copy: for what the block sees, what the block
\* means by it, and else the copy's own declaration.
Meant(m, def, given, at) ==
  LET seen == {i \in DOMAIN def.seen : def.seen[i].means = m}
  IN  IF seen # {} THEN given[CHOOSE i \in seen : TRUE].means
      ELSE IF IsGlobal(m) THEN m ELSE [m EXCEPT !.copies = Append(@, at)]

\* Faulty variant for a mutation run: what the block sees keeps its binding.
Renamed_NotGiven(t, def, given, at) ==
  LET new == [t EXCEPT !.means = Meant(@, def, given, at)]
  IN  IF t.loop # def.loop \/ Injected(t.text, def) THEN new
      ELSE [new EXCEPT !.text = MadeUp(t.text.name, def.loop, at)]

\* rename_leaf (), for text and binding.
Renamed(t, def, given, at) ==
  LET seen == {i \in DOMAIN def.seen : ~IsGlobal(t) /\ def.seen[i].place = t.place}
      new == [t EXCEPT !.means = Meant(@, def, given, at)]
  IN  IF seen # {}
      THEN LET g == given[CHOOSE i \in seen : TRUE]
           IN  [new EXCEPT !.place = g.place, !.loop = g.loop]
      ELSE IF t.loop # def.loop \/ Injected(t.text, def) THEN new
      ELSE [new EXCEPT !.text = MadeUp(t.text.name, def.loop, at)]

\* A copy of statements, with block in the place of {...}.
RECURSIVE Copied(_, _, _, _, _)
Copied(s, def, given, at, block) ==
  LET rename(t) == Renamed(t, def, given, at)
      each(tokens) == [i \in 1..Len(tokens) |-> rename(tokens[i])]
      one(i) == CASE i.is = "decl" -> [i EXCEPT !.token = rename(@), !.type = each(@), !.init = each(@)]
                  [] i.is = "use" -> [i EXCEPT !.token = rename(@)]
                  [] i.is = "block" -> InBraces(Copied(i.body, def, given, at, block))
                  [] OTHER -> block
  IN  [k \in 1..Len(s) |-> one(s[k])]

\* bind_parameter (): a declaration of parameter i, of the name that own gives.
Bound(def, i, token, value, given, at) ==
  [is |-> "decl", token |-> token, init |-> <<value>>,
   type |-> [k \in DOMAIN def.params[i].type |-> Renamed(def.params[i].type[k], def, given, at)]]

Own(def, i, given, at) == Renamed(def.params[i].token, def, given, at)

\* The hidden local of parameter i: a token made anew has no binding.
HiddenUse(def, i, at) ==
  [Token(MadeUp("arg" \o ToString(i), def.loop, at), <<>>, 0)
     EXCEPT !.means = [place |-> Append(at, -i), copies |-> <<>>]]

\* Its declaration is the parameter's, with another text.
HiddenDecl(def, i, given, at) ==
  [Own(def, i, given, at) EXCEPT !.text = HiddenUse(def, i, at).text, !.means = HiddenUse(def, i, at).means]

\* Faulty variant for a mutation run: no hidden locals.
Parameters_Direct(def, args, given, at) ==
  [i \in DOMAIN def.params |-> Bound(def, i, Own(def, i, given, at), args[i], given, at)]

\* The arguments first, and then the parameters that the block sees.
Parameters(def, args, given, at) ==
  LET all == [i \in DOMAIN def.params |-> i]
      hidden(i) == Injected(def.params[i].token.text, def)
      first(i) == IF hidden(i) THEN HiddenDecl(def, i, given, at) ELSE Own(def, i, given, at)
      then == SelectSeq(all, hidden)
  IN  [i \in DOMAIN all |-> Bound(def, i, first(i), args[i], given, at)]
      \o [n \in DOMAIN then |-> Bound(def, then[n], Own(def, then[n], given, at),
                                      HiddenUse(def, then[n], at), given, at)]

\* A use with more arguments, or fewer, leaves its block.
Expanded(def, args, block, given, at) ==
  IF Len(args) # Len(def.params) THEN InBraces(block)
  ELSE InBraces(Append(Parameters(def, args, given, at),
                       InBraces(Copied(def.body, def, given, at, InBraces(block)))))
-----------------------------------------------------------------------------
(***************************************************************************)
(* The parser: names are bound as they are read, and a use is expanded     *)
(* where it ends.  defs are the definitions so far.                        *)
(***************************************************************************)
\* loop_open (): the names that the block sees, as the outer loop's own.
Given(def, at, loop) == [i \in DOMAIN def.injects |-> Token(Plain(def.injects[i]), Append(at, i), loop)]

RECURSIVE Parse(_, _, _, _, _)
Parse(s, env, defs, loop, path) ==
  IF s = <<>> THEN <<>>
  ELSE LET i == Head(s)
           at == Append(path, Len(s))
           token == Token(Plain(i.name), at, loop)
           after == IF i.is = "decl" THEN (i.name :> token) @@ env ELSE env
           one == CASE i.is = "decl" -> [is |-> "decl", token |-> token, type |-> <<>>, init |-> LookupAll(after, i.init)]
                    [] i.is = "use" -> [is |-> "use", token |-> Lookup(env, i.name)]
                    [] i.is = "block" -> InBraces(Parse(i.body, env, defs, loop, at))
                    [] i.is = "here" -> [is |-> "here", env |-> env]
                    [] i.is = "loop" ->
                         LET def == defs[i.loop]
                             given == Given(def, Append(at, 0), loop)
                             inner == [x \in DOMAIN env \cup {def.injects[k] : k \in DOMAIN def.injects} |->
                                         IF \E k \in DOMAIN given : def.injects[k] = x
                                         THEN given[CHOOSE k \in DOMAIN given : def.injects[k] = x]
                                         ELSE env[x]]
                         IN  Expanded(def, LookupAll(env, i.args), Parse(i.body, inner, defs, loop, at), given, Append(at, 0))
       IN  <<one>> \o Parse(Tail(s), after, defs, loop, path)

\* Where {...} is.
RECURSIVE HereIn(_)
HereIn(s) ==
  LET one(i) == IF i.is = "here" THEN <<i>> ELSE IF i.is = "block" THEN HereIn(i.body) ELSE <<>>
  IN  FlattenSeq([k \in 1..Len(s) |-> one(s[k])])

ParseParams(params, loop) ==
  FoldLeft(LAMBDA p, i :
             LET token == Token(Plain(params[i].name), <<loop, -i>>, loop)
             IN  [params |-> Append(p.params, [token |-> token, type |-> LookupAll(p.env, params[i].type)]),
                  env |-> (params[i].name :> token) @@ p.env],
           [params |-> <<>>, env |-> <<>>], [i \in 1..Len(params) |-> i])

\* A definition; loop_placeholder () looks its names up where {...} is.
Definition(d, loop, defs) ==
  LET p == ParseParams(d.params, loop)
      body == Parse(d.body, p.env, defs, loop, <<loop>>)
      here == HereIn(body)
  IN  [loop |-> loop, params |-> p.params, body |-> body, injects |-> d.injects,
       seen |-> IF Len(here) = 1 THEN LookupAll(here[1].env, d.injects) ELSE <<>>]

\* loop_check_params ().
Unnamed(def) == \E i \in DOMAIN def.params : def.params[i].token.text.name = ""

\* What keeps the file from gcc: {...} missing or twice, a name listed that the
\* loop does not declare there, or a parameter without a name.
Wrong(def) ==
  \/ Len(HereIn(def.body)) # 1
  \/ \E i \in DOMAIN def.seen : def.seen[i].loop # def.loop
  \/ Unnamed(def)

\* A use with another number of arguments than the loop has parameters.
RECURSIVE Miscounted(_, _)
Miscounted(s, defs) ==
  \E k \in DOMAIN s :
     \/ s[k].is = "loop" /\ Len(s[k].args) # Len(defs[s[k].loop].params)
     \/ s[k].is \in {"loop", "block"} /\ Miscounted(s[k].body, defs)

\* loop_same (): a loop may be defined again with the same text; its first
\* definition stays.
Redefined == \E k \in DOMAIN source.again : source.again[k] # source.one
-----------------------------------------------------------------------------
(***************************************************************************)
(* The programs: loop 1 is `one', loop 2 is `two', and main uses them.     *)
(***************************************************************************)
Injects == {<<>>, <<"x">>, <<"y">>, <<"x", "y">>}
Has(params, name) == \E i \in DOMAIN params : params[i].name = name

\* Definitions leave no name free: what that would mean is for the use.
OneBodies(params) ==
  {<<Here>>,
   <<Declares("y", <<>>), Here, UsesName("y")>>,
   <<Declares("x", <<>>), InBraces(<<Declares("y", <<"x">>), Here>>), UsesName("x")>>,
   <<Declares("y", <<>>), InBraces(<<Here, UsesName("y")>>), Here>>}
  \cup IF Has(params, "x")
       THEN {<<Declares("y", <<"x">>), Here, UsesName("y")>>,
             <<InBraces(<<Declares("x", <<>>), Here>>), UsesName("x")>>}
       ELSE {}

\* Arguments for n parameters, of which the first is a name.
Args(n, name) == [i \in 1..n |-> IF i = 1 THEN name ELSE "x"]

TwoBodies(n, params) ==
  {<<Declares("x", <<>>), LoopUse(1, Args(n, "x"), <<Here>>), UsesName("x")>>,
   <<Declares("x", <<>>), Declares("y", <<"x">>), LoopUse(1, Args(n, "y"), <<Here, UsesName("x")>>)>>}
  \cup IF Has(params, "x")
       THEN {<<LoopUse(1, Args(n, "x"), <<Declares("y", <<"x">>), Here, UsesName("y")>>)>>,
             <<Here, LoopUse(1, Args(n, "x"), <<UsesName("x")>>)>>}
       ELSE {}

WithBodies(params, Bodies(_)) ==
  UNION {[params : {ps}, body : Bodies(ps), injects : Injects] : ps \in params}

Ones == WithBodies({<<>>, <<Param("x", <<>>)>>, <<Param("x", <<>>), Param("y", <<>>)>>,
                    <<Param("x", <<>>), Param("y", <<"x">>)>>}, OneBodies)
Twos(n) == WithBodies({<<>>, <<Param("x", <<>>)>>}, LAMBDA ps : TwoBodies(n, ps))

Block == <<UsesName("x"), UsesName("y"), UsesName("z")>>
Mains(n1, n2) ==
  LET args(l, name) == Args(IF l = 1 THEN n1 ELSE n2, name)
      InMain(body) == <<Declares("x", <<>>), Declares("y", <<>>)>> \o body
  IN  {InMain(<<LoopUse(l, args(l, name), Block)>> \o Block) : l \in 1..2, name \in {"x", "z"}}
      \cup {InMain(<<LoopUse(l, args(l, "x"), <<Declares("z", <<"x">>), LoopUse(m, args(m, "z"), Block)>>)>>) :
             l \in 1..2, m \in 1..2}

Programs ==
  UNION {UNION {[one : {one}, two : {two}, again : {<<>>},
                 main : Mains(Len(one.params), Len(two.params))] :
                  two \in Twos(Len(one.params))} : one \in Ones}

\* Programs with an argument too many or too few, in loop 2 or in main, with an
\* unnamed parameter, or with loop 1 defined again.
OddPrograms ==
  LET one(params) == [params |-> params, body |-> <<Declares("y", <<>>), Here>>, injects |-> <<"y">>]
      two(n) == [params |-> <<>>, injects |-> <<>>,
                 body |-> <<Declares("x", <<>>), LoopUse(1, Args(n, "x"), <<Here>>)>>]
      main(l, n) == <<Declares("x", <<>>), LoopUse(l, Args(n, "x"), Block)>>
      params == {<<>>, <<Param("x", <<>>)>>, <<Param("", <<>>)>>}
  IN  UNION {UNION {[one : {one(ps)}, two : {two(n)}, main : {main(l, m) : l \in 1..2, m \in 0..2},
                     again : {<<>>} \cup {<<one(qs)>> : qs \in params}] :
                      n \in 0..2} : ps \in params}
-----------------------------------------------------------------------------
(***************************************************************************)
(* cwrap reads a program: gcc gets nothing of one with an error.           *)
(***************************************************************************)
Init == source \in Programs \cup OddPrograms /\ output = <<>> /\ rejected = FALSE

Translate ==
  LET one == Definition(source.one, 1, <<>>)
      two == Definition(source.two, 2, <<one>>)
  IN  /\ output = <<>> /\ ~rejected
      /\ rejected' = \/ Wrong(one) \/ Wrong(two) \/ Redefined
                     \/ Miscounted(source.two.body, <<one>>)
                     \/ Miscounted(source.main, <<one, two>>)
      /\ output' = IF rejected' THEN <<>> ELSE Parse(source.main, <<>>, <<one, two>>, 0, <<0>>)
      /\ UNCHANGED source

Next == Translate
Spec == Init /\ [][Next]_vars
-----------------------------------------------------------------------------
(***************************************************************************)
(* The names of the output, as gcc resolves them.                          *)
(***************************************************************************)
Finds(t, scope) ==
  IF t.text \in DOMAIN scope THEN scope[t.text] = t.means ELSE IsGlobal(t.means)

\* A declaration is in scope in its initializer, and not yet in its type.
RECURSIVE AllMeant(_, _)
AllMeant(s, scope) ==
  s = <<>> \/
  LET i == Head(s)
      after == IF i.is = "decl" THEN (i.token.text :> i.token.means) @@ scope ELSE scope
      all(names, in) == \A k \in DOMAIN names : Finds(names[k], in)
  IN  /\ CASE i.is = "decl" -> all(i.type, scope) /\ all(i.init, after)
            [] i.is = "use" -> Finds(i.token, scope)
            [] OTHER -> AllMeant(i.body, scope)
      /\ AllMeant(Tail(s), after)

\* The type of a parameter names one that the block sees (its declaration is
\* of a hidden local, so that no parameter of that name is there yet).
TypedByHidden(d) ==
  \E i \in DOMAIN d.params : \E k \in DOMAIN d.injects : Contains(d.params[i].type, d.injects[k])

\* Loop 1 lists a parameter, and loop 2, which uses it, does not pass it on: to
\* pass a name on is to list it, and to have {...} where that is the name.
KeepsAParameter ==
  LET passed(name) ==
        /\ Contains(source.two.injects, name)
        /\ \E k \in DOMAIN source.two.body :
              LET u == source.two.body[k]
              IN  /\ u.is = "loop" /\ Contains(u.body, Here)
                  /\ \A m \in DOMAIN u.body : u.body[m].is = "decl" => u.body[m].name # name
  IN  \E i \in DOMAIN source.one.params :
         LET name == source.one.params[i].name
         IN  Contains(source.one.injects, name) /\ ~passed(name)

\* Each name in the expansion of a use means what it means in the program: the
\* names of a loop are hidden from the block, the block's from the loop, and a
\* listed name is the loop's own, however uses nest; and gcc gets a program whose
\* uses all have an argument for each parameter.
Hygienic ==
  /\ TypedByHidden(source.one) \/ KeepsAParameter \/ AllMeant(output, <<>>)
  /\ output # <<>> => /\ ~Miscounted(source.two.body, <<source.one>>)
                      /\ ~Miscounted(source.main, <<source.one, source.two>>)

\* "A name an inner loop gives but the outer one does not list is the outer
\* loop's own, and hidden like the rest" (libc-pp/README.md).
HiddenLikeTheRest == TypedByHidden(source.one) \/ AllMeant(output, <<>>)
=============================================================================
