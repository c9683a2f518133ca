------------------------------ MODULE ModelBuild ------------------------------
(***************************************************************************)
(* toolchain/simrt_linux_target/tools/build_model.py: incremental build of *)
(* a model bundle.  Inputs are hashed file by file, sources are compiled   *)
(* in parallel into a cache keyed by those hashes, the ELF is linked and   *)
(* published, build_result.json says what it was built from; meanwhile an  *)
(* editor saves files, a second build is started, a build is killed.       *)
(*                                                                         *)
(* A content is a number and stands for its digest; an object is what the  *)
(* compiler read to make it, or "damaged".                                 *)
(***************************************************************************)
EXTENDS Naturals, FiniteSets

CONSTANTS
    Sources,      \* sources of the build specification
    Builds,       \* invocations of the script
    MaxEdits,     \* bound of the model: edits of the inputs
    MaxCrashes    \* bound of the model: builds killed

\* Besides its sources a bundle has the build specification, a header that
\* every source includes, and a name under src that the compiler's -I finds
\* when a header is there.
Files == Sources \union {"header", "extra", "spec"}

\* An edit makes a content that was not there before (the digests are compared
\* again after compilation, so text changed and changed back in between would
\* go unnoticed), and the toolchain is not exchanged while a build runs.
BuildAssumption ==
    /\ IsFiniteSet(Sources) /\ Sources # {} /\ Sources \intersect {"header", "extra", "spec"} = {}
    /\ MaxEdits \in Nat /\ MaxCrashes \in Nat

VARIABLES
    content, tools,    \* of the input files and of the compiler package
    object, record,    \* .build_cache: key -> object, key -> digest of it
    elf,               \* the published ELF: the objects it was linked from
    report,            \* build_result.json
    b,                 \* what each invocation is doing
    crashes

disk == <<content, tools, object, record, elf, report, crashes>>
vars == <<disk, b>>

Nothing == [f \in {} |-> 0]
Idle == [at |-> "idle", check |-> FALSE, rebuild |-> FALSE, hashes |-> Nothing, tools |-> 0,
         work |-> [s \in Sources |-> "todo"], read |-> Nothing, out |-> Nothing]

Init ==
    /\ content = [f \in Files |-> 0] /\ tools = 0
    /\ object = Nothing /\ record = Nothing /\ elf = Nothing
    /\ report = [status |-> "none"]
    /\ b = [p \in Builds |-> Idle] /\ crashes = 0

\* The extra header is there when its number is odd: an edit puts it under src
\* or takes it away.  What the compiler or a listing sees of it is its content,
\* or 0.
There(n) == n % 2 = 1
Extra == IF There(content["extra"]) THEN content["extra"] ELSE 0

Edits == LET Total[S \in SUBSET Files] ==
                 IF S = {} THEN 0
                 ELSE LET f == CHOOSE g \in S : TRUE IN content[f] + Total[S \ {f}]
         IN Total[Files] + tools

-----------------------------------------------------------------------------
\* bundle_lock: the file stays, the lock ends with its process.
Holder(p) == b[p].at # "idle"
MutantAlwaysFree == TRUE
LockFree == \A p \in Builds : ~Holder(p)

\* main up to the lock; the one that does not get it leaves the report alone.
Begin(p) ==
    /\ ~Holder(p) /\ LockFree
    /\ \E check, rebuild \in BOOLEAN :
        b' = [b EXCEPT ![p] = [Idle EXCEPT !.at = "validate", !.check = check,
                                           !.rebuild = rebuild]]
    /\ UNCHANGED disk

\* validate_bundle: the specification and the names that are in src, then file
\* by file; a listed file that has gone is an error (Fail).  Called before
\* compilation and, with another result, before the ELF is published.
List(p) ==
    /\ b[p].at \in {"validate", "revalidate"} /\ b[p].hashes = Nothing
    /\ b' = [b EXCEPT ![p].hashes =
                [f \in {"spec"} \union (IF Extra = 0 THEN {"extra"} ELSE {}) |->
                    IF f = "spec" THEN content["spec"] ELSE 0]]
    /\ UNCHANGED disk
Hash(p) ==
    /\ b[p].at \in {"validate", "revalidate"} /\ "spec" \in DOMAIN b[p].hashes
    /\ \E f \in Files \ DOMAIN b[p].hashes :
        /\ f = "extra" => Extra # 0
        /\ b' = [b EXCEPT ![p].hashes = [g \in DOMAIN @ \union {f} |->
                                            IF g = f THEN content[f] ELSE @[g]]]
    /\ UNCHANGED disk
Hashed(p) == DOMAIN b[p].hashes = Files

\* The report of an exit from main's inner try.
Finish(p, result) ==
    /\ report' = result
    /\ b' = [b EXCEPT ![p] = Idle]
    /\ UNCHANGED <<content, tools, object, record, elf, crashes>>

\* Any exception between the lock and the last report; threads that still
\* compile are awaited first.
Fail(p) ==
    /\ Holder(p)
    /\ \A s \in Sources : b[p].work[s] \in {"todo", "done", "failed"}
    /\ Finish(p, [status |-> "failed"])

Checked(p) ==
    /\ b[p].at = "validate" /\ Hashed(p) /\ b[p].check
    /\ Finish(p, [status |-> "checked"])

MutantNoRunning(p) ==
    /\ b[p].at = "validate" /\ Hashed(p) /\ ~b[p].check
    /\ b' = [b EXCEPT ![p].at = "tools"]
    /\ UNCHANGED disk

\* The report of the last build is withdrawn.
Running(p) ==
    /\ b[p].at = "validate" /\ Hashed(p) /\ ~b[p].check
    /\ report' = [status |-> "running"]
    /\ b' = [b EXCEPT ![p].at = "tools"]
    /\ UNCHANGED <<content, tools, object, record, elf, crashes>>

\* select_toolchain: the package is located, and its compilers and every support
\* file are hashed; a missing or foreign one ends the build (Fail).
SelectToolchain(p) ==
    /\ b[p].at = "tools"
    /\ b' = [b EXCEPT ![p].at = "compile", ![p].tools = tools]
    /\ UNCHANGED disk

-----------------------------------------------------------------------------
(* compile_one, one thread of the pool for each source.                    *)

\* What goes into the object of a source: the content of each file, 0 for a
\* header that is not listed, and the tools.
Inputs(s, h, t) == [source |-> s, text |-> h[s], header |-> h["header"], extra |-> h["extra"],
                    spec |-> h["spec"], tools |-> t]

\* The key of the cache: all of it, as hashed.
Key(p, s) == Inputs(s, b[p].hashes, b[p].tools)

Store(f, k, v) == [x \in DOMAIN f \union {k} |-> IF x = k THEN v ELSE f[x]]

\* The cached object is used when its record has its digest.
Reusable(k) == k \in DOMAIN object /\ k \in DOMAIN record /\ record[k] = object[k]
Lookup(p, s) ==
    /\ b[p].at = "compile" /\ b[p].work[s] = "todo"
    /\ LET hit == ~b[p].rebuild /\ Reusable(Key(p, s))
       IN b' = [b EXCEPT ![p].work[s] = IF hit THEN "done" ELSE "source"]
    /\ UNCHANGED disk

\* The compiler reads the source, later the headers; definitions come with its
\* command line.
ReadSource(p, s) ==
    /\ b[p].work[s] = "source"
    /\ b' = [b EXCEPT ![p].work[s] = "header",
                      ![p].read = Store(@, s, [Key(p, s) EXCEPT !.text = content[s]])]
    /\ UNCHANGED disk
ReadHeader(p, s) ==
    /\ b[p].work[s] = "header"
    /\ b' = [b EXCEPT ![p].work[s] = "extra", ![p].read[s].header = content["header"]]
    /\ UNCHANGED disk
ReadExtra(p, s) ==
    /\ b[p].work[s] = "extra"
    /\ b' = [b EXCEPT ![p].work[s] = "checksource", ![p].read[s].extra = Extra]
    /\ UNCHANGED disk
CompileFails(p, s) ==
    /\ b[p].work[s] \in {"source", "header", "extra", "replace", "record"}
    /\ b' = [b EXCEPT ![p].work[s] = "failed"]
    /\ UNCHANGED disk

\* The inputs must still be those of the key: the source, then the headers
\* that were listed, in turn.
CheckSource(p, s) ==
    /\ b[p].work[s] = "checksource"
    /\ b' = [b EXCEPT ![p].work[s] =
                IF content[s] = b[p].hashes[s] THEN "checkheader" ELSE "failed"]
    /\ UNCHANGED disk

MutantSourceOnly(p, s) ==
    /\ b[p].work[s] = "checkheader"
    /\ b' = [b EXCEPT ![p].work[s] = "replace"]
    /\ UNCHANGED disk

CheckHeader(p, s) ==
    /\ b[p].work[s] = "checkheader"
    /\ b' = [b EXCEPT ![p].work[s] =
                IF content["header"] = b[p].hashes["header"] THEN "checkextra" ELSE "failed"]
    /\ UNCHANGED disk

\* A header that was not listed is not looked for.
CheckExtra(p, s) ==
    /\ b[p].work[s] = "checkextra"
    /\ b' = [b EXCEPT ![p].work[s] =
                IF b[p].hashes["extra"] \in {0, Extra} THEN "replace" ELSE "failed"]
    /\ UNCHANGED disk

Replace(p, s) ==
    /\ b[p].work[s] = "replace"
    /\ object' = Store(object, Key(p, s), b[p].read[s])
    /\ b' = [b EXCEPT ![p].work[s] = "record"]
    /\ UNCHANGED <<content, tools, record, elf, report, crashes>>
Record(p, s) ==
    /\ b[p].work[s] = "record"
    /\ record' = Store(record, Key(p, s), object[Key(p, s)])
    /\ b' = [b EXCEPT ![p].work[s] = "done"]
    /\ UNCHANGED <<content, tools, object, elf, report, crashes>>

-----------------------------------------------------------------------------
(* The rest of build, and of main.                                         *)

Link(p) ==
    /\ b[p].at = "compile" /\ \A s \in Sources : b[p].work[s] = "done"
    /\ b' = [b EXCEPT ![p].at = "revalidate",
                      ![p].out = [s \in Sources |-> object[Key(p, s)]],
                      ![p].read = b[p].hashes, ![p].hashes = Nothing]
    /\ UNCHANGED disk

\* Only when nothing has changed since the first validation, whose hashes Link
\* kept in "read".
Publish(p) ==
    /\ b[p].at = "revalidate" /\ Hashed(p) /\ b[p].hashes = b[p].read
    /\ elf' = b[p].out
    /\ b' = [b EXCEPT ![p].at = "report"]
    /\ UNCHANGED <<content, tools, object, record, report, crashes>>
Success(p) ==
    /\ b[p].at = "report"
    /\ Finish(p, [status |-> "success", sources_hash |-> b[p].hashes, toolchain |-> b[p].tools,
                  elf |-> b[p].out])

-----------------------------------------------------------------------------
(* The environment.                                                        *)

\* A file is saved; a new compiler package is installed between builds.
Edit ==
    /\ Edits < MaxEdits
    /\ \/ /\ \E f \in Files : content' = [content EXCEPT ![f] = @ + 1]
          /\ UNCHANGED tools
       \/ LockFree /\ tools' = tools + 1 /\ UNCHANGED content
    /\ UNCHANGED <<object, record, elf, report, b, crashes>>

\* A build is killed, or the machine loses power and with it the contents of
\* objects that had not reached the disk.
Kill(p) ==
    /\ Holder(p) /\ crashes < MaxCrashes
    /\ crashes' = crashes + 1
    /\ \E lost \in {{}} \union {{k} : k \in DOMAIN object} :
        object' = [k \in DOMAIN object |->
                    IF k \in lost THEN [object[k] EXCEPT !.source = "damaged"] ELSE object[k]]
    /\ b' = [b EXCEPT ![p] = Idle]
    /\ UNCHANGED <<content, tools, record, elf, report>>

Next ==
    \/ \E p \in Builds :
        \/ Begin(p) \/ List(p) \/ Hash(p) \/ Fail(p) \/ Checked(p) \/ Running(p) \/ SelectToolchain(p)
        \/ \E s \in Sources :
            \/ Lookup(p, s) \/ ReadSource(p, s) \/ ReadHeader(p, s) \/ ReadExtra(p, s)
            \/ CompileFails(p, s) \/ CheckSource(p, s) \/ CheckHeader(p, s)
            \/ CheckExtra(p, s) \/ Replace(p, s) \/ Record(p, s)
        \/ Link(p) \/ Publish(p) \/ Success(p) \/ Kill(p)
    \/ Edit

Spec == Init /\ [][Next]_vars

-----------------------------------------------------------------------------
\* An object is what the inputs k compile to, but for a header that k does not
\* list: the code has no means to see that one was there.
MadeFrom(o, k) == o = [k EXCEPT !.extra = IF @ = 0 THEN o.extra ELSE @]

\* An object that a build would take from the cache is what the inputs of its
\* key compile to, whatever was edited while it was compiled and wherever a
\* build was killed (compile_one hashes before, compiles and hashes again).
\* Excepted is a header that was put under src while the object was compiled.
CacheTrue == \A k \in DOMAIN object : Reusable(k) => MadeFrom(object[k], k)

\* A report of success is about the ELF in place, and that was linked from
\* objects of the inputs the report lists (the report and the ELF are two
\* files, replaced one after the other by builds that may die in between), with
\* the exception of CacheTrue.
ReportTrue ==
    report.status = "success" =>
        /\ report.elf = elf
        /\ \A s \in Sources :
            MadeFrom(elf[s], Inputs(s, report.sources_hash, report.toolchain))

\* Without that exception: an object that a build is about to reuse was made from
\* the sources, headers, parameters and tools it is looked up by (TOOLCHAIN.md,
\* section on incremental builds).
ReusedExactly ==
    \A p \in Builds, s \in Sources :
        b[p].at = "compile" /\ b[p].work[s] = "todo" /\ Reusable(Key(p, s)) =>
            object[Key(p, s)] = Key(p, s)

=============================================================================
