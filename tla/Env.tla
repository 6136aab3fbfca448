-------------------------------- MODULE Env --------------------------------
(***************************************************************************)
(* The environment of a process (env.c), and running a program with a      *)
(* changed one (pathexec.c).  A string of the environment is a name and a  *)
(* value; the value is NoValue when the string has no '='.  environ is     *)
(* copied by the first change; alloc may fail at every call.               *)
(***************************************************************************)
EXTENDS Integers, Sequences, FiniteSets, SequencesExt

CONSTANTS
  Names, Values, NoValue,   \* NoValue: a string without '='
  Inherited,     \* environments a program starts with
  EnvMax,        \* strings that are looked at
  Room, More     \* pointers allocated in excess: 10 at first, then 30

EnvStrings == [name : Names, value : Values \cup {NoValue}]

ASSUME EnvAssumption ==
  /\ NoValue \notin Values /\ Inherited \subseteq Seq(EnvStrings)
  /\ EnvMax \in Nat /\ Room \in Nat /\ More \in Nat \ {0}

VARIABLES
  environ, isinit, ea,  \* the first en = Len(environ) pointers are in use, of ea
  strings,              \* strings of env.c that are allocated
  eret,                 \* of the last call
  asked                 \* history: what the last call was to do

envVars == <<environ, isinit, ea, strings, eret, asked>>

String(n, v) == [name |-> n, value |-> v]

EnvStart ==
  /\ environ \in Inherited /\ isinit = FALSE /\ ea = 0 /\ strings = 0
  /\ eret = 1 /\ asked = <<"start">>

IsOf(s, n) == s.name = n /\ s.value # NoValue

\* env_get: the first string of that name
EnvGet(e, n) ==
  LET k == SelectInSeq(e, LAMBDA s : IsOf(s, n)) IN IF k = 0 THEN NoValue ELSE e[k].value

\* env_del: the last string takes the place
Del(e, k) == LET n == Len(e) IN SubSeq([e EXCEPT ![k] = e[n]], 1, n - 1)

\* env_unsetlen: from the last string to the first
UnsetLen(e, n) ==
  LET left[k \in 0 .. Len(e)] ==
        IF k = 0 THEN e
        ELSE LET r == left[k - 1]
                 i == Len(e) - k + 1
             IN  IF IsOf(r[i], n) THEN Del(r, i) ELSE r
  IN  left[Len(e)]

-----------------------------------------------------------------------------
\* what a call finds behind env_init, which may fail at any string and then frees the
\* others
RoomNow == IF isinit THEN ea ELSE Len(environ) + Room
StringsNow == IF isinit THEN strings ELSE Len(environ)

InitFails == ~isinit /\ eret' = 0 /\ UNCHANGED <<environ, isinit, ea, strings>>

\* faulty variant of Set: the array grows when it is nearly full
SetEarly(s, grow) ==
  LET e == IF s.value = NoValue THEN environ ELSE UnsetLen(environ, s.name)
      full == Len(e) + 1 >= RoomNow
      freed == StringsNow - (Len(environ) - Len(e))
  IN  /\ isinit' = TRUE
      /\ \/ /\ full /\ ~grow
            /\ eret' = 0 /\ environ' = e /\ ea' = Len(e) /\ strings' = freed
         \/ /\ full => grow
            /\ eret' = 1 /\ environ' = Append(e, s) /\ strings' = freed + 1
            /\ ea' = IF full THEN RoomNow + More ELSE RoomNow

\* env_set of a string that was allocated, and freed again when the array cannot grow
Set(s, grow) ==
  LET e == IF s.value = NoValue THEN environ ELSE UnsetLen(environ, s.name)
      full == Len(e) = RoomNow
      freed == StringsNow - (Len(environ) - Len(e))
  IN  /\ isinit' = TRUE
      /\ \/ /\ full /\ ~grow
            /\ eret' = 0 /\ environ' = e /\ ea' = Len(e) /\ strings' = freed
         \/ /\ full => grow
            /\ eret' = 1 /\ environ' = Append(e, s) /\ strings' = freed + 1
            /\ ea' = IF full THEN RoomNow + More ELSE RoomNow

\* env_put, env_puts
EnvPut(s) ==
  /\ Len(environ) < EnvMax /\ asked' = <<"put", s>>
  /\ \/ InitFails
     \/ /\ eret' = 0 /\ isinit' = TRUE /\ ea' = RoomNow /\ strings' = StringsNow
        /\ UNCHANGED environ
     \/ \E grow \in BOOLEAN : Set(s, grow)

\* env_unset
EnvUnset(n) ==
  /\ asked' = <<"unset", String(n, NoValue)>>
  /\ \/ InitFails
     \/ LET e == UnsetLen(environ, n)
        IN  /\ eret' = 1 /\ isinit' = TRUE /\ ea' = RoomNow
            /\ environ' = e /\ strings' = StringsNow - (Len(environ) - Len(e))

\* env_clear
EnvClear ==
  /\ environ' = <<>> /\ strings' = 0 /\ eret' = 1 /\ asked' = <<"clear">>
  /\ UNCHANGED <<isinit, ea>>

EnvNext ==
  \/ \E n \in Names, v \in Values \cup {NoValue} : EnvPut(String(n, v))
  \/ \E n \in Names : EnvUnset(n)
  \/ EnvClear

EnvSpec == EnvStart /\ [][EnvNext]_envVars

-----------------------------------------------------------------------------
(***************************************************************************)
(* Properties                                                              *)
(***************************************************************************)
\* strings of a name
NumberOf(e, n) == Cardinality({k \in DOMAIN e : IsOf(e[k], n)})

\* A change of the environment that fails changes nothing, although the old value is
\* removed before the array grows: there is room behind a removal.  One that succeeds
\* leaves one string of the name, or none, and of other names the strings there were;
\* what env_get finds of them is the same unless they are there twice (env.c:36-101).
ChangesAsAsked ==
  IF eret' = 0 THEN environ' = environ
  ELSE IF asked'[1] = "clear" THEN environ' = <<>>
  ELSE asked'[1] \in {"put", "unset"} =>
    LET s == asked'[2]
        changed(n) == n = s.name /\ (asked'[1] = "unset" \/ s.value # NoValue)
    IN  \A n \in Names :
          IF changed(n)
          THEN /\ EnvGet(environ', n) = s.value
               /\ NumberOf(environ', n) = IF s.value = NoValue THEN 0 ELSE 1
          ELSE /\ NumberOf(environ', n) = NumberOf(environ, n)
               /\ NumberOf(environ, n) = 1 => EnvGet(environ', n) = EnvGet(environ, n)

PutOrNothing == [][ChangesAsAsked]_envVars

\* The array has room for every string, and the strings env.c has allocated are those
\* of the environment: none is lost and none freed twice (env.c:36-134).
EnvOwned ==
  IF isinit THEN Len(environ) <= ea /\ strings = Len(environ) ELSE strings = 0

\* The environment is changed as asked or not at all, and owns its strings and room
\* (env.c:36-134).
EnvKept == []EnvOwned /\ PutOrNothing

-----------------------------------------------------------------------------
(***************************************************************************)
(* Programs: assignments are queued, applied in one pass over a copy of    *)
(* environ, and the program is looked for along PATH.  EACCES stands for   *)
(* EACCES, EPERM and EISDIR.                                               *)
(***************************************************************************)
CONSTANTS
  PATH,          \* a name
  Dirs,          \* directories
  DirsOf,        \* those of a value of PATH, one at least
  DefaultDirs,   \* /bin:/usr/bin
  PlusMax        \* assignments that are queued

ASSUME PathExecAssumption ==
  /\ PATH \in Names /\ PlusMax \in Nat
  /\ DirsOf \in [Values -> Seq(Dirs) \ {<<>>}] /\ DefaultDirs \in Seq(Dirs) \ {<<>>}

VARIABLES
  plus,     \* the queue
  pstep,    \* where pathexec is
  child,    \* the environment of the program
  dirs,     \* directories left to be searched
  errno, saved,
  tried     \* history: what execve said of each directory

pathVars == <<plus, pstep, child, dirs, errno, saved, tried>>
programs == <<envVars, pathVars>>

PathStart ==
  /\ plus = <<>> /\ pstep = "idle" /\ child = <<>> /\ dirs = <<>>
  /\ errno = "none" /\ saved = "none" /\ tried = <<>>

\* pathexec_env, pathexec_multienv: all of it is queued, or nothing
Queue(ss) ==
  /\ pstep = "idle" /\ Len(plus) + Len(ss) <= PlusMax
  /\ plus' \in {plus, plus \o ss}
  /\ UNCHANGED <<envVars, pstep, child, dirs, errno, saved, tried>>

\* faulty variant of Assign: the array shrinks without its last string being moved
AssignDrops(e, s) ==
  LET k == SelectInSeq(e, LAMBDA x : IsOf(x, s.name))
      rest == IF k = 0 THEN e ELSE SubSeq(e, 1, Len(e) - 1)
  IN  IF s.value = NoValue THEN rest ELSE Append(rest, s)

\* pathexec: one assignment; the first string of its name makes way
Assign(e, s) ==
  LET k == SelectInSeq(e, LAMBDA x : IsOf(x, s.name))
      rest == IF k = 0 THEN e ELSE Del(e, k)
  IN  IF s.value = NoValue THEN rest ELSE Append(rest, s)

\* pathexec: the queued assignments, one after the other
Assigned(e, ss) ==
  LET with[k \in 0 .. Len(ss)] == IF k = 0 THEN e ELSE Assign(with[k - 1], ss[k])
  IN  with[Len(ss)]

\* the directories that are searched
SearchPath ==
  LET p == EnvGet(environ, PATH) IN IF p = NoValue THEN DefaultDirs ELSE DirsOf[p]

\* pathexec, and the beginning of pathexec_run: PATH is that of the caller; a file with a
\* slash is not searched
PathExec(slash) ==
  /\ pstep = "idle" /\ tried' = <<>> /\ saved' = "none"
  /\ \/ /\ child' = Assigned(environ, plus)
        /\ pstep' = IF slash THEN "direct" ELSE "search"
        /\ dirs' = SearchPath
        /\ errno' = "none"
     \/ errno' = "ENOMEM" /\ child' = <<>> /\ UNCHANGED <<pstep, dirs>>
  /\ UNCHANGED <<envVars, plus>>

\* pathexec_run: execve of a file with a slash
Direct(e) ==
  /\ pstep = "direct"
  /\ IF e = "ok" THEN pstep' = "gone" /\ UNCHANGED errno ELSE pstep' = "idle" /\ errno' = e
  /\ UNCHANGED <<envVars, plus, child, dirs, saved, tried>>

\* pathexec_run: one directory
Search(e) ==
  /\ pstep = "search" /\ tried' = Append(tried, e) /\ dirs' = Tail(dirs)
  /\ CASE e = "ok" -> pstep' = "gone" /\ UNCHANGED <<errno, saved>>
       [] e = "EOTHER" -> pstep' = "idle" /\ errno' = e /\ saved' = e
       [] e \in {"ENOENT", "EACCES"} ->
            /\ saved' = IF e = "ENOENT" THEN saved ELSE e
            /\ IF Len(dirs) = 1
               THEN pstep' = "idle" /\ errno' = IF saved' = "none" THEN e ELSE saved'
               ELSE pstep' = pstep /\ errno' = e
  /\ UNCHANGED <<envVars, plus, child>>

\* pathexec_run: the name of the file cannot be put together
NameFails ==
  /\ pstep = "search" /\ pstep' = "idle" /\ errno' = "ENOMEM"
  /\ UNCHANGED <<envVars, plus, child, dirs, saved, tried>>

\* environ is only read here: it is any a program may have
PathExecNext ==
  \/ \E n \in Names, v \in Values \cup {NoValue} : Queue(<<String(n, v)>>)
  \/ \E n \in Names, v \in Values : Queue(<<String(n, v), String(PATH, NoValue)>>)
  \/ \E slash \in BOOLEAN : PathExec(slash)
  \/ \E e \in {"ok", "ENOENT", "EACCES", "EOTHER"} : Direct(e) \/ Search(e)
  \/ NameFails

ProgramsSpec == EnvStart /\ PathStart /\ [][PathExecNext]_programs

-----------------------------------------------------------------------------
(***************************************************************************)
(* Properties                                                              *)
(***************************************************************************)
\* The program's environment is that of its caller with the queued assignments made in
\* their order: the last of a name counts, and a name that was there once is there once
\* or not at all (pathexec.c:47-80).
ChildHasAssignments ==
  pstep \in {"search", "direct", "gone"} =>
    \A n \in Names :
      LET last == SelectLastInSeq(plus, LAMBDA s : s.name = n)
      IN  NumberOf(environ, n) <= 1 =>
            /\ EnvGet(child, n) = IF last = 0 THEN EnvGet(environ, n) ELSE plus[last].value
            /\ NumberOf(child, n) <= 1

\* A search that finds no program has gone through PATH to its end or to an error that
\* is not about a file, and the error it reports is one that was met: ENOENT only when
\* every directory said so (pathexec.c:98-120).
SearchTellsWhy ==
  pstep = "idle" /\ tried # <<>> /\ errno # "ENOMEM" =>
    /\ errno = "ENOENT" <=> \A k \in DOMAIN tried : tried[k] = "ENOENT"
    /\ errno = "EOTHER" <=> tried[Len(tried)] = "EOTHER"
    /\ errno # "EOTHER" => Len(tried) = Len(SearchPath)

\* A program is run with the environment its caller has put together, and a search that
\* finds none reports why (pathexec.c:47-120).
ProgramIsRun == ChildHasAssignments /\ SearchTellsWhy
=============================================================================
