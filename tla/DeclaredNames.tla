---------------------------- MODULE DeclaredNames ----------------------------
(***************************************************************************)
(* The names that are in scope while libc-pp/src/parser.y reads a file:    *)
(* which calls of scope.c its rules make, in which order, as declarations, *)
(* function bodies, blocks and for statements open and close, and what its *)
(* error recovery undoes.  The lexer asks the table about every name it    *)
(* meets, since C cannot be parsed without: `T * x;' declares x only if T  *)
(* is a type.                                                              *)
(*                                                                         *)
(* frames is what the parser is inside of, with the declarations that C    *)
(* has in scope there: the table is checked against it.                    *)
(***************************************************************************)
EXTENDS ScopeTable

CONSTANTS
  MaxDecls,     \* model bound: declarations
  MaxOpen,      \* model bound: constructs opened, in all
  MaxErrors     \* model bound: syntax errors

VARIABLES
  st,           \* the table
  frames,       \* the constructs open, with the names each declares
  decls,        \* declarations so far: each is named by its number
  opened,       \* constructs opened so far
  errors,
  odd           \* has the file had one of the lists named at NamesAsInC?

vars == <<st, frames, decls, opened, errors, odd>>

NoNames == [x \in {} |-> 0]

\* A construct that declares names of its own.
Scope(what, names) ==
  [what |-> what, names |-> names, stage |-> "", means |-> "", lists |-> <<>>, nested |-> FALSE]

\* A declaration: what it declares, how far it is, what the lists of parameters
\* after its name declare, and whether a statement expression was in it.
Declaration(stage, means) ==
  [what |-> "decl", names |-> NoNames, stage |-> stage, means |-> means, lists |-> <<>>,
   nested |-> FALSE]

Builtins == {BuiltinTypes[i] : i \in DOMAIN BuiltinTypes}

Init ==
  /\ st = NewTable
  /\ frames = <<Scope("file", [x \in Builtins |-> [kind |-> "typedef", decl |-> 0]])>>
  /\ decls = 0 /\ opened = 0 /\ errors = 0 /\ odd = FALSE

Here == frames[Len(frames)]
Depth == Len(frames)
Under == frames[Len(frames) - 1]
At(stages) == Here.what = "decl" /\ Here.stage \in stages
Items == Here.what \in {"file", "block"}
\* Bounded by MaxOpen, of which an error takes one, and by one more after
\* something odd.
Opens == opened + errors < MaxOpen /\ opened' = IF odd THEN MaxOpen ELSE opened + 1
Open(f) == Opens /\ frames' = Append(frames, f)
Close == frames' = Front(frames)

Odd(happens) == odd' = (odd \/ happens)

Note(names, name, kind) ==
  [x \in DOMAIN names \cup {name} |-> IF x = name THEN [kind |-> kind, decl |-> decls + 1] ELSE names[x]]
-----------------------------------------------------------------------------
(***************************************************************************)
(* Declarations.  declaration: specifiers, then declarators.               *)
(***************************************************************************)
\* The specifiers begin; typedef is one of them, and sets the latch.
BeginDeclaration(means) ==
  /\ Items \/ (Here.what = "for" /\ Here.stage = "")
  /\ st' = IF means = "typedef" THEN TypedefSeen(st) ELSE st
  /\ frames' = Append(IF Items THEN frames ELSE [frames EXCEPT ![Depth].stage = "declared"],
                      Declaration("specifiers", means))
  /\ Opens /\ Odd(st.typedef_seen)
  /\ UNCHANGED <<decls, errors>>

\* struct S { int m; }: a member has a declarator, which declares nothing.
Member ==
  /\ (At({"specifiers", "named"}) /\ Here.means # "member") \/ Here.what = "params"
  /\ st' = DeclaratorNamed(st)
  /\ Open(Declaration("named", "member"))
  /\ Odd(At({"named"}))
  /\ UNCHANGED <<decls, errors>>

\* The specifiers end, which latches typedef, and the declarator has its name.
FirstDeclarator ==
  /\ At({"specifiers"})
  /\ st' = DeclaratorNamed(SpecifiersDone(st))
  /\ frames' = [frames EXCEPT ![Depth].stage = "named"]
  /\ UNCHANGED <<decls, opened, errors, odd>>

\* `struct S { ... };': no declarator.
NothingDeclared ==
  /\ At({"specifiers"})
  /\ st' = SpecifiersReset(st)
  /\ Close
  /\ UNCHANGED <<decls, opened, errors, odd>>

\* named_declarator: in scope from here, before its initializer.
Declare(x) ==
  /\ At({"named"}) /\ Here.means # "member" /\ decls < MaxDecls
  /\ st' = Add(st, x, st.declaring, decls + 1)
  /\ frames' = [frames EXCEPT ![Depth].stage = "initializer",
                              ![Depth - 1].names = Note(@, x, Here.means)]
  /\ decls' = decls + 1
  /\ Odd(Here.nested)
  /\ UNCHANGED <<opened, errors>>

NextDeclarator ==
  /\ At({"initializer"})
  /\ st' = DeclaratorNamed(st)
  /\ frames' = [frames EXCEPT ![Depth].stage = "named", ![Depth].lists = <<>>]
  /\ UNCHANGED <<decls, opened, errors, odd>>

EndDeclaration ==
  /\ At({"initializer"}) \/ (At({"named"}) /\ Here.means = "member")
  /\ Close
  /\ UNCHANGED <<st, decls, opened, errors, odd>>
-----------------------------------------------------------------------------
(***************************************************************************)
(* Lists of parameters: after a name, or in the type of a cast.            *)
(***************************************************************************)
OpenParams ==
  /\ \/ Here.what \in {"params", "block"}
     \/ At({"specifiers", "named"})
  /\ st' = PushParams(st)
  /\ Open(Scope("params", NoNames))
  /\ Odd(At({"named"}) /\ Here.lists # <<>> /\ st.fn_params = NoScope)
  /\ UNCHANGED <<decls, errors>>

\* `()' opens nothing.
NoParams ==
  /\ At({"named"}) /\ Here.lists = <<>>
  /\ frames' = [frames EXCEPT ![Depth].lists = <<NoNames>>]
  /\ UNCHANGED <<st, decls, opened, errors, odd>>

Param(x) ==
  /\ Here.what = "params" /\ decls < MaxDecls
  /\ st' = Add(DeclaratorNamed(st), x, "variable", decls + 1)
  /\ frames' = [frames EXCEPT ![Depth].names = Note(@, x, "variable")]
  /\ decls' = decls + 1
  /\ UNCHANGED <<opened, errors, odd>>

\* close_params comes before the `)' is read.
CloseParams ==
  /\ Here.what = "params"
  /\ st' = PopParams(st)
  /\ frames' = [frames EXCEPT ![Depth].what = "closing"]
  /\ UNCHANGED <<decls, opened, errors, odd>>

RightParen ==
  /\ Here.what = "closing"
  /\ frames' = [Front(frames) EXCEPT
                  ![Depth - 1].lists = IF Under.what = "decl" /\ Under.stage = "named"
                                       THEN Append(@, Here.names) ELSE @]
  /\ UNCHANGED <<st, decls, opened, errors, odd>>
-----------------------------------------------------------------------------
(***************************************************************************)
(* Bodies, blocks and for statements.                                      *)
(***************************************************************************)
\* function_definition: the body sees the parameters of the declarator's first
\* list.
EnterFunction ==
  /\ At({"named"}) /\ Here.means = "variable" /\ Here.lists # <<>>
  /\ Under.what \in {"file", "block"}
  /\ st' = Push(ResumeParams(st))
  /\ frames' = [frames EXCEPT ![Depth] = Scope("function", Here.lists[1])]
               \o <<Scope("block", NoNames)>>
  /\ Odd(Here.nested \/ \E i \in 1..Depth : frames[i].what = "params")
  /\ UNCHANGED <<decls, opened, errors>>

\* A block, or the block of a statement expression.
OpenBlock ==
  /\ Here.what \in {"block", "for", "params"} \/ At({"specifiers", "named", "initializer"})
  /\ st' = Push(st)
  /\ frames' = Append([i \in 1..Depth |-> [frames[i] EXCEPT !.nested = frames[i].what = "decl"]],
                      Scope("block", NoNames))
  /\ Opens
  /\ UNCHANGED <<decls, errors, odd>>

\* The end of a block; of a function's body, with the function's own scope.
CloseBlock ==
  /\ Here.what = "block"
  /\ IF Under.what = "function"
     THEN st' = Pop(Pop(st)) /\ frames' = Front(Front(frames))
     ELSE st' = Pop(st) /\ Close
  /\ UNCHANGED <<decls, opened, errors, odd>>

OpenFor ==
  /\ Here.what = "block"
  /\ st' = Push(st)
  /\ Open(Scope("for", NoNames))
  /\ UNCHANGED <<decls, errors, odd>>

CloseFor ==
  /\ Here.what = "for"
  /\ st' = Pop(st)
  /\ Close
  /\ UNCHANGED <<decls, opened, errors, odd>>
-----------------------------------------------------------------------------
(***************************************************************************)
(* Errors.  The parser gives up what is open inside of the innermost block,*)
(* or of the file, and the destructors of the markers on its stack undo    *)
(* their scopes; it goes on after the next `;', or after a `}', which      *)
(* ends the block.                                                         *)
(***************************************************************************)
Block == Max({i \in 1..Depth : frames[i].what \in {"file", "block"}})

\* A `)' still to come after close_params leaves open_params on the stack.
Undone(s, f) ==
  IF f.what \in {"params", "closing"} THEN AbandonParams(s)
  ELSE IF f.what = "for" THEN Pop(s) ELSE s

Error(brace) ==
  /\ errors < MaxErrors
  /\ LET undo[i \in Block..Depth] == IF i = Depth THEN st ELSE Undone(undo[i + 1], frames[i + 1])
         undone == undo[Block]
         ends == brace /\ frames[Block].what = "block"
         kept == SubSeq(frames, 1, Block)
     IN  /\ IF ends /\ frames[Block - 1].what = "function"
            THEN /\ st' = Pop(ErrorRecovered(Pop(undone)))
                 /\ frames' = Front(Front(kept))
            ELSE IF ends
            THEN st' = ErrorRecovered(Pop(undone)) /\ frames' = Front(kept)
            ELSE st' = ErrorRecovered(undone) /\ frames' = kept
         /\ Odd(\E i \in (Block + 1)..Depth : frames[i].what = "closing")
  /\ errors' = errors + 1
  /\ UNCHANGED <<decls, opened>>
-----------------------------------------------------------------------------
Next ==
  \/ \E means \in {"typedef", "variable"} : BeginDeclaration(means)
  \/ Member \/ FirstDeclarator \/ NothingDeclared
  \/ \E x \in Names \ Builtins : Declare(x) \/ Param(x)
  \/ NextDeclarator \/ EndDeclaration
  \/ OpenParams \/ NoParams \/ CloseParams \/ RightParen
  \/ EnterFunction \/ OpenBlock \/ CloseBlock \/ OpenFor \/ CloseFor
  \/ \E brace \in BOOLEAN : Error(brace)

Spec == Init /\ [][Next]_vars
-----------------------------------------------------------------------------
(***************************************************************************)
(* Properties.                                                             *)
(***************************************************************************)
\* "The declaration of name visible now, innermost scope first": the lexer
\* finds the declaration that C has in scope, in a function's body also the
\* parameters of that function and of no prototype before it, after an error
\* too.  Not after one of these, which odd records: declarations inside of
\* specifiers that began with typedef, in a struct after a declarator's name or
\* in a statement expression there; a function defined inside of a list of
\* parameters; `()' before a list with names; an error between close_params
\* and its `)'.
NamesAsInC ==
  ~odd =>
    \A x \in Names :
      LET at == {i \in 1..Depth : frames[i].what # "closing" /\ x \in DOMAIN frames[i].names}
          found == Find(st, x)
      IN  [kind |-> found.kind, decl |-> found.decl]
          = IF at = {} THEN [kind |-> NoVar.kind, decl |-> NoVar.decl]
            ELSE frames[Max(at)].names[x]

\* "Nothing here ... stops the run": whatever the file holds, there is a scope
\* to declare the next name in, and no table is in use twice, or in use and
\* free: no two scopes can come to share their names.
TablesStayApart == st.scopes # <<>> /\ OneOwnerEach(st)
=============================================================================
