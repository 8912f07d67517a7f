------------------------------- MODULE Import --------------------------------
(***************************************************************************)
(* Modules: bl_oper_import, bl_oper_using for one symbol, bl_oper_include  *)
(* (runtime/src/builtins.c) and bl_eval_file (utils.c).                    *)
(*                                                                         *)
(* A module is a context inside the context that imports it, filled by     *)
(* evaluating a source file, which may import further modules, or by a     *)
(* dynamic library.  stack holds one frame for each file whose evaluation  *)
(* has begun and not ended.                                                *)
(*                                                                         *)
(* A statement of a file stands for whatever evaluates to the same effect  *)
(* on names.  Outside the model: names bound to strings, which import      *)
(* takes for the name of the module, and imports made inside an operator.  *)
(***************************************************************************)
EXTENDS Integers, Sequences, FiniteSets

CONSTANTS
  Names,     (* of modules and variables, unqualified                      *)
  Path,      (* *PATH*: the directories to search, in order                *)
  NoDir,     (* the directory of the prompt, which has no file             *)
  FileIn,    (* FileIn[d][m]: the file for module m in directory d ..      *)
  NoFile,    (* .. or this                                                 *)
  Home,      (* Home[f]: the directory that file f is in                   *)
  Source,    (* Source[f]: the statements of source file f                 *)
  Libraries, (* files that are dynamic libraries with a bl_mod_init        *)
  Broken,    (* files that are dynamic libraries without one               *)
  Forms,     (* the statements typed at the prompt, each at most once      *)
  Err, Data, (* values: an error; neither error nor context nor string     *)
  MaxForms,  (* bound: statements typed                                    *)
  MaxCtx     (* bound: contexts created                                    *)

Sources == DOMAIN Source
Files == DOMAIN Home
Ctx == 1..MaxCtx
Val == Ctx \cup {0, Err, Data}      (* 0 is NULL                           *)

ImportOf(p) == [op |-> "import", path |-> p]
Using(p) == [op |-> "using", path |-> p]
Include(f) == [op |-> "include", file |-> f]
SetTo(x) == [op |-> "set", name |-> x]
Fail == [op |-> "fail"]

Paths == UNION {[1..k -> Names] : k \in 1..3}
Statements ==
  {ImportOf(p) : p \in Paths}
    \cup {Using(p) : p \in {q \in Paths : Len(q) > 1}}
    \cup {Include(f) : f \in Sources \cup {NoFile}} \cup {SetTo(x) : x \in Names} \cup {Fail}

ASSUME ImportAssumption ==
  /\ MaxCtx \in Nat \ {0} /\ MaxForms \in Nat
  /\ Err \notin Nat /\ Data \notin Nat /\ Err # Data
  /\ Sources \cup Libraries \cup Broken = Files /\ NoFile \notin Files
  /\ \A f \in Sources : Source[f] \in Seq(Statements)
  /\ Forms \subseteq Statements

VARIABLES
  n,       (* contexts 1..n exist; 1 is the prompt's                       *)
  chain,   (* chain[c]: c, its parent, the parent's parent ...             *)
  bind,    (* bind[c][x]: the value of x in context c                      *)
  home,    (* home[c]: the directory part of *FILENAME* in c               *)
  stack,   (* the files being evaluated, innermost first                   *)
  phase,   (* "idle", "exec": statement stmt begins, "ret": it returned    *)
           (* ret, "next": go on in the file on top, or "crash"            *)
  stmt, ret,
  todo,    (* forms not yet typed                                          *)
  ready,   (* history: contexts of modules that are complete               *)
  loads    (* history: the files loaded, in order                          *)

vars == <<n, chain, bind, home, stack, phase, stmt, ret, todo, ready, loads>>
created == <<n, chain, home>>

Init ==
  /\ n = 1 /\ chain = << <<1>> >> /\ home = <<NoDir>>
  /\ bind = << [x \in Names |-> 0] >>
  /\ stack = <<>> /\ phase = "idle" /\ stmt = Fail /\ ret = 0
  /\ todo = Forms /\ ready = {} /\ loads = <<>>

Top == stack[1]
Here == IF stack = <<>> THEN 1 ELSE Top.ctx

(* bl_ctx_get, as Scopes promises it.                                      *)
Holders(c, x) == {i \in 1..Len(chain[c]) : bind[chain[c][i]][x] # 0}
Visible(c, x) ==
  IF Holders(c, x) = {} THEN 0
  ELSE bind[chain[c][CHOOSE i \in Holders(c, x) : \A j \in Holders(c, x) : i <= j]][x]

Return(v) == phase' = "ret" /\ ret' = v

Crash ==
  /\ phase' = "crash"
  /\ UNCHANGED <<created, bind, stack, stmt, ret, todo, ready, loads>>

Executing(op) == phase = "exec" /\ stmt.op = op

-----------------------------------------------------------------------------
(* (import m) *)

Name == stmt.path[1]
Importing == Executing("import") /\ Len(stmt.path) = 1

(* What the name stands for already.                                       *)
Bound == Visible(Here, Name)

(* Imported before, as far as this context can see.                        *)
ImportBound ==
  /\ Importing /\ Bound \in Ctx
  /\ Return(Bound)
  /\ UNCHANGED <<created, bind, stack, stmt, todo, ready, loads>>

(* Bound to something else, whose bytes are then taken for a string.       *)
ImportOther ==
  /\ Importing /\ Bound \in {Err, Data}
  /\ Crash

(* The directories searched.  The directory of the module that imports     *)
(* comes first, but the string has been freed by then (builtins.c:679):    *)
(* the memory may still hold it, or name no directory any more.            *)
Searches ==
  IF home[Here] = NoDir THEN {Path} ELSE {Path, <<home[Here]>> \o Path}

(* The first match.                                                        *)
FirstFile(p) ==
  LET hits == {i \in 1..Len(p) : FileIn[p[i]][Name] # NoFile}
  IN  IF hits = {} THEN NoFile
      ELSE FileIn[p[CHOOSE i \in hits : \A j \in hits : i <= j]][Name]

Loading(f) == Importing /\ Bound = 0 /\ \E p \in Searches : FirstFile(p) = f

ImportMissing ==
  /\ Loading(NoFile) \/ \E f \in Broken : Loading(f)
  /\ Return(Err)
  /\ UNCHANGED <<created, bind, stack, stmt, todo, ready, loads>>

(* A new context inside this one, for file f.                              *)
NewCtx(f) ==
  /\ n < MaxCtx /\ n' = n + 1
  /\ chain' = Append(chain, <<n + 1>> \o chain[Here])
  /\ home' = Append(home, Home[f])
  /\ loads' = Append(loads, f)

(* Mutant: the module is bound before its source is evaluated.             *)
BeginEarly == Append([bind EXCEPT ![Here][Name] = n + 1], [x \in Names |-> 0])

(* The variables when a module begins: its own are unset.                  *)
Begin == Append(bind, [x \in Names |-> 0])

(* A dynamic library: bl_mod_init makes the context, complete at once.     *)
ImportLibrary(f) ==
  /\ Loading(f)
  /\ NewCtx(f)
  /\ bind' = [Begin EXCEPT ![Here][Name] = n + 1]
  /\ ready' = ready \cup {n + 1}
  /\ Return(n + 1)
  /\ UNCHANGED <<stack, stmt, todo>>

ImportSource(f) ==
  /\ Loading(f)
  /\ NewCtx(f)
  /\ bind' = Begin
  /\ stack' = <<[kind |-> "import", ctx |-> n + 1, file |-> f, pc |-> 1,
                 into |-> Here, name |-> Name]>> \o stack
  /\ phase' = "next"
  /\ UNCHANGED <<stmt, ret, todo, ready>>

-----------------------------------------------------------------------------
(* Qualified names: (import a::b), (import a::b::c), (using a::x), ...     *)

(* x in whatever m is: a value that is no context reads as an empty one.   *)
In(m, x) == IF m \in Ctx THEN Visible(m, x) ELSE 0
OrErr(v) == IF v = 0 THEN Err ELSE v

Qualified(op, k) == Executing(op) /\ Len(stmt.path) = k
First == Visible(Here, stmt.path[1])
Second == In(First, stmt.path[2])
Third == In(Second, stmt.path[3])

(* An error does not read as a context: its bytes have the name that was   *)
(* not found where bl_ctx_get expects the address of a function.           *)
NoContext ==
  /\ Executing("import") \/ Executing("using")
  /\ Len(stmt.path) > 1
  /\ First = Err \/ (Len(stmt.path) = 3 /\ Second = Err)
  /\ Crash

(* The last part is bound here to what it stands for there.                *)
BindLast(x, v) ==
  /\ bind' = IF v = 0 THEN bind ELSE [bind EXCEPT ![Here][x] = v]
  /\ Return(OrErr(v))
  /\ UNCHANGED <<created, stack, stmt, todo, ready, loads>>

Import2 ==
  /\ Qualified("import", 2) /\ First # Err
  /\ BindLast(stmt.path[2], Second)

Using2 ==
  /\ Qualified("using", 2) /\ First # Err
  /\ BindLast(stmt.path[2], Second)

Using3 ==
  /\ Qualified("using", 3) /\ First # Err /\ Second # Err
  /\ BindLast(stmt.path[3], Third)

Import3Missing ==
  /\ Qualified("import", 3) /\ First = 0
  /\ Return(Err)
  /\ UNCHANGED <<created, bind, stack, stmt, todo, ready, loads>>

(* import b::c is made in module m, which binds c there.                   *)
Inward(b, m, x, v) == IF v = 0 THEN b ELSE [b EXCEPT ![m][x] = v]

(* Three parts: the result of the import made in the first module, which   *)
(* may be an error, is bound to the last part here as well.                *)
Import3 ==
  /\ Qualified("import", 3) /\ First \notin {0, Err} /\ Second # Err
  /\ bind' = [Inward(bind, First, stmt.path[3], Third)
                 EXCEPT ![Here][stmt.path[3]] = OrErr(Third)]
  /\ Return(OrErr(Third))
  /\ UNCHANGED <<created, stack, stmt, todo, ready, loads>>

-----------------------------------------------------------------------------
(* The other statements *)

bl_oper_set ==
  /\ Executing("set")
  /\ bind' = [bind EXCEPT ![Here][stmt.name] = Data]
  /\ Return(Data)
  /\ UNCHANGED <<created, stack, stmt, todo, ready, loads>>

Failing ==
  /\ Executing("fail")
  /\ Return(Err)
  /\ UNCHANGED <<created, bind, stack, stmt, todo, ready, loads>>

(* The file is evaluated in this very context.                             *)
bl_oper_include ==
  /\ Executing("include") /\ stmt.file # NoFile
  /\ stack' = <<[kind |-> "include", ctx |-> Here, file |-> stmt.file, pc |-> 1,
                 into |-> Here, name |-> ""]>> \o stack
  /\ phase' = "next"
  /\ UNCHANGED <<created, bind, stmt, ret, todo, ready, loads>>

(* A file that cannot be opened is read, and closed, through NULL.         *)
IncludeNothing == Executing("include") /\ stmt.file = NoFile /\ Crash

-----------------------------------------------------------------------------
(* bl_eval_file: one statement after the other, up to the first error.     *)

(* Mutant: the loop does not advance.                                      *)
Stuck(fr) == fr

Advance(fr) == [fr EXCEPT !.pc = @ + 1]

More ==
  /\ phase = "next" /\ Top.pc <= Len(Source[Top.file])
  /\ stmt' = Source[Top.file][Top.pc] /\ phase' = "exec"
  /\ stack' = <<Advance(Top)>> \o Tail(stack)
  /\ UNCHANGED <<created, bind, ret, todo, ready, loads>>

(* The end of the file: an import now binds the module.                    *)
EndImport ==
  /\ phase = "next" /\ Top.pc > Len(Source[Top.file]) /\ Top.kind = "import"
  /\ bind' = [bind EXCEPT ![Top.into][Top.name] = Top.ctx]
  /\ ready' = ready \cup {Top.ctx}
  /\ Return(Top.ctx)
  /\ stack' = Tail(stack)
  /\ UNCHANGED <<created, stmt, todo, loads>>

EndInclude ==
  /\ phase = "next" /\ Top.pc > Len(Source[Top.file]) /\ Top.kind = "include"
  /\ Return(Data)
  /\ stack' = Tail(stack)
  /\ UNCHANGED <<created, bind, stmt, todo, ready, loads>>

GoOn ==
  /\ phase = "ret" /\ stack # <<>> /\ ret # Err
  /\ phase' = "next"
  /\ UNCHANGED <<created, bind, stack, stmt, ret, todo, ready, loads>>

(* Mutant: the module is bound although its source ended in an error.      *)
AbandonedBound == [bind EXCEPT ![Top.into][Top.name] = Top.ctx]

(* The variables when a file has ended in an error.                        *)
Abandoned == bind

GiveUp ==
  /\ phase = "ret" /\ stack # <<>> /\ ret = Err
  /\ bind' = Abandoned
  /\ stack' = Tail(stack)
  /\ UNCHANGED <<created, phase, stmt, ret, todo, ready, loads>>

(* The prompt.                                                             *)
Submit(s) ==
  /\ phase = "idle" /\ Cardinality(Forms \ todo) < MaxForms
  /\ phase' = "exec" /\ stmt' = s /\ todo' = todo \ {s}
  /\ UNCHANGED <<created, bind, stack, ret, ready, loads>>

Answer ==
  /\ phase = "ret" /\ stack = <<>>
  /\ phase' = "idle"
  /\ UNCHANGED <<created, bind, stack, stmt, ret, todo, ready, loads>>

Step ==
  \/ ImportBound \/ ImportOther \/ ImportMissing
  \/ \E f \in Libraries : ImportLibrary(f)
  \/ \E f \in Sources : ImportSource(f)
  \/ NoContext \/ Import2 \/ Using2 \/ Using3 \/ Import3Missing \/ Import3
  \/ bl_oper_set \/ Failing \/ bl_oper_include \/ IncludeNothing
  \/ More \/ EndImport \/ EndInclude \/ GoOn \/ GiveUp \/ Answer

Next == (\E s \in todo : Submit(s)) \/ Step

(* One thread, which goes on while it has work.                            *)
Spec == Init /\ [][Next]_vars /\ WF_vars(Step)

-----------------------------------------------------------------------------
Frame == [kind : {"import", "include"}, ctx : 1..n, file : Sources, pc : Nat \ {0},
          into : 1..n, name : Names \cup {""}]

TypeOK ==
  /\ n \in 1..MaxCtx
  /\ Len(chain) = n /\ chain \in Seq(Seq(1..n) \ {<<>>})
  /\ Len(bind) = n /\ bind \in Seq([Names -> 0..n \cup {Err, Data}])
  /\ Len(home) = n /\ home \in Seq({NoDir} \cup {Home[f] : f \in Files})
  /\ stack \in Seq(Frame)
  /\ phase \in {"idle", "exec", "ret", "next", "crash"}
  /\ stmt \in Statements /\ ret \in 0..n \cup {Err, Data}
  /\ todo \subseteq Forms /\ ready \subseteq 1..n
  /\ phase = "next" => stack # <<>>

(* Nobody gets hold of a module that is still being loaded, or whose       *)
(* loading failed: a name stands for a context only when all of the        *)
(* module's source has been evaluated (builtins.c:766-777).                *)
OnlyFinishedModules ==
  \A c \in 1..n : \A x \in Names : bind[c][x] \in Ctx => bind[c][x] \in ready

(* The contexts that wait for a module to be loaded into them.             *)
Waiting == {stack[i].into : i \in {j \in 1..Len(stack) : stack[j].kind = "import"}}

(* Whatever a module's source does, imports of all kinds included, the     *)
(* variables of those that wait for it do not change, except that the      *)
(* module is bound when it is complete: an import that fails leaves no     *)
(* trace in the importing context (builtins.c:769-776).                    *)
WaitingUntouched ==
  [][\A c \in Waiting : bind'[c] = bind[c] \/ (phase = "next" /\ c = Top.into)]_vars

(* The inductive invariant: a file being evaluated is evaluated in a       *)
(* context that no name stands for yet, and each was begun from the one    *)
(* below it on the stack, which is older.                                  *)
StackOK ==
  /\ 1 \notin ready
  /\ \A i \in 1..Len(stack) :
       /\ stack[i].ctx \notin ready /\ stack[i].into \notin ready
       /\ stack[i].into <= stack[i].ctx
       /\ stack[i].kind = "import" => stack[i].into < stack[i].ctx /\ stack[i].name \in Names
       /\ \A j \in 1..Len(stack) : i < j => stack[j].ctx <= stack[i].into

ImpInv == TypeOK /\ OnlyFinishedModules /\ StackOK

(* Every import ends, as long as no two modules import each other.         *)
ImportEnds == phase # "idle" ~> phase \in {"idle", "crash"}

(* "see if we already imported, and if so just return the already imported *)
(* module" (builtins.c:650): no file is loaded twice.                      *)
EachFileOnce == \A i, j \in 1..Len(loads) : loads[i] = loads[j] => i = j
=============================================================================
