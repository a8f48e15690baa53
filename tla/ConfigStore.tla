----------------------------- MODULE ConfigStore -----------------------------
(***************************************************************************)
(* Where a start of the CLI gets its endpoint from                         *)
(* (datex-cli/src/utils/config.rs): the .dx files in ~/.datex.  The first  *)
(* start creates one for a random endpoint; later starts read the first    *)
(* one of the directory listing.  Processes may start at the same time,    *)
(* and may be killed at any point; the directory survives.                 *)
(*                                                                         *)
(* A file is named by its endpoint.  fs::write truncates and then writes:  *)
(* until it has finished the content is "partial" and does not parse.  The *)
(* operating system may refuse every call, and that ends the start, with   *)
(* one exception: an entry of the directory that cannot be read is left    *)
(* out of the listing, as if it were not there.                            *)
(*                                                                         *)
(* Starts with --config or without a home directory leave the files alone: *)
(* they are in Cli.                                                        *)
(***************************************************************************)
EXTENDS Naturals, FiniteSets

CONSTANTS
    Processes,  \* processes of the CLI
    Endpoints,  \* the values Endpoint::random() draws; bounds the new files
    None        \* no endpoint

ASSUME ConfigAssumption == None \notin Endpoints

VARIABLES
    file,      \* the .dx files: "none", "partial" or "whole"
    pc,        \* where each process stands
    endpoint,  \* the endpoint it creates, reads or runs with
    drawn,     \* endpoints drawn so far: no two draws are the same
    identity,  \* history: endpoints that some process has run with
    torn,      \* history: writing a configuration was interrupted or failed
    overlap,   \* history: a process was started during the start of another
    blind      \* history: a listing has left out every file there was

vars == <<file, pc, endpoint, drawn, identity, torn, overlap, blind>>

\* A start that is given up has "failed" over a configuration that does not
\* parse, or met an "error" of the operating system.
States == {"off", "listing", "creating", "writing", "reading", "running",
           "failed", "error"}

Starting == {"listing", "creating", "writing", "reading"}

Files == {e \in Endpoints : file[e] # "none"}

Init ==
    /\ file = [e \in Endpoints |-> "none"]
    /\ pc = [p \in Processes |-> "off"]
    /\ endpoint = [p \in Processes |-> None]
    /\ drawn = {}
    /\ identity = {}
    /\ torn = FALSE
    /\ overlap = FALSE
    /\ blind = FALSE

Goto(p, state) == pc' = [pc EXCEPT ![p] = state]
Use(p, e) == endpoint' = [endpoint EXCEPT ![p] = e]

------------------------------------------------------------------------------
(* Plausible bugs.  Each variant replaces the definition it is named after *)
(* to show that the properties below depend on it; no behaviour of the     *)
(* code uses them.                                                         *)

\* Every start creates a configuration.
ListFilesNot(p) ==
    /\ pc[p] = "listing"
    /\ \E e \in Endpoints \ drawn :
          Use(p, e) /\ Goto(p, "creating") /\ drawn' = drawn \cup {e}
    /\ UNCHANGED <<file, identity, torn, overlap, blind>>

\* The file has the same name for every endpoint.
DrawFixedName(p) ==
    \E e \in Endpoints :
        /\ \A f \in Files \cup drawn : f = e
        /\ Use(p, e)
        /\ Goto(p, "creating")
        /\ drawn' = drawn \cup {e}

\* The new configuration is used before it is written.
WriteAllDeferred(p) ==
    /\ pc[p] = "writing"
    /\ Goto(p, "running")
    /\ identity' = identity \cup {endpoint[p]}
    /\ UNCHANGED <<file, endpoint, drawn, torn, overlap, blind>>

\* The file is read before it is written.
TruncateThenRead(p) ==
    /\ pc[p] = "creating"
    /\ file' = [file EXCEPT ![endpoint[p]] = "partial"]
    /\ Goto(p, "reading")
    /\ UNCHANGED <<endpoint, drawn, identity, torn, overlap, blind>>

------------------------------------------------------------------------------
(* get_config *)

\* The program is started.
Start(p) ==
    /\ pc[p] = "off"
    /\ Goto(p, "listing")
    /\ overlap' = (overlap \/ \E q \in Processes : pc[q] \in Starting)
    /\ UNCHANGED <<file, endpoint, drawn, identity, torn, blind>>

\* There are no .dx files: a random endpoint is drawn for a new one.
Draw(p) ==
    \E e \in Endpoints \ drawn :
        /\ Use(p, e)
        /\ Goto(p, "creating")
        /\ drawn' = drawn \cup {e}

\* get_dx_files: read_dir lists in no particular order, partial files too;
\* entry.ok() drops the entries that cannot be read.
List(p) ==
    /\ pc[p] = "listing"
    /\ \E listed \in SUBSET Files :
          IF listed = {}
          THEN Draw(p) /\ blind' = (blind \/ Files # {})
          ELSE /\ \E e \in listed : Use(p, e)
               /\ Goto(p, "reading")
               /\ UNCHANGED <<drawn, blind>>
    /\ UNCHANGED <<file, identity, torn, overlap>>

\* ~/.datex cannot be created, or not be listed.
ListErr(p) ==
    /\ pc[p] = "listing"
    /\ Goto(p, "error")
    /\ UNCHANGED <<file, endpoint, drawn, identity, torn, overlap, blind>>

\* create_new_config_file: fs::write opens and truncates the file ...
Truncate(p) ==
    /\ pc[p] = "creating"
    /\ file' = [file EXCEPT ![endpoint[p]] = "partial"]
    /\ Goto(p, "writing")
    /\ UNCHANGED <<endpoint, drawn, identity, torn, overlap, blind>>

\* ... and writes the configuration,
WriteAll(p) ==
    /\ pc[p] = "writing"
    /\ file' = [file EXCEPT ![endpoint[p]] = "whole"]
    /\ Goto(p, "reading")
    /\ UNCHANGED <<endpoint, drawn, identity, torn, overlap, blind>>

\* or one of the two fails, and what was written stays.
WriteErr(p) ==
    /\ pc[p] \in {"creating", "writing"}
    /\ Goto(p, "error")
    /\ torn' = (torn \/ pc[p] = "writing")
    /\ UNCHANGED <<file, endpoint, drawn, identity, overlap, blind>>

\* read_config_file: the configuration parses, or the start fails.
Read(p) ==
    /\ pc[p] = "reading"
    /\ IF file[endpoint[p]] = "whole"
       THEN Goto(p, "running") /\ identity' = identity \cup {endpoint[p]}
       ELSE Goto(p, "failed") /\ UNCHANGED identity
    /\ UNCHANGED <<file, endpoint, drawn, torn, overlap, blind>>

\* The file cannot be opened or read, whole as it may be, or its path is not
\* Unicode: to_str().unwrap().
ReadErr(p) ==
    /\ pc[p] = "reading"
    /\ Goto(p, "error")
    /\ UNCHANGED <<file, endpoint, drawn, identity, torn, overlap, blind>>

\* The process ends or is killed, wherever it stands.
Kill(p) ==
    /\ pc[p] # "off"
    /\ Goto(p, "off")
    /\ Use(p, None)
    /\ torn' = (torn \/ pc[p] = "writing")
    /\ UNCHANGED <<file, drawn, identity, overlap, blind>>

\* The calls of get_config.
Configure(p) ==
    \/ List(p) \/ Truncate(p) \/ WriteAll(p) \/ Read(p)
    \/ ListErr(p) \/ WriteErr(p) \/ ReadErr(p)

Next == \E p \in Processes : Start(p) \/ Configure(p) \/ Kill(p)

Spec == Init /\ [][Next]_vars

------------------------------------------------------------------------------
TypeOK ==
    /\ file \in [Endpoints -> {"none", "partial", "whole"}]
    /\ pc \in [Processes -> States]
    /\ endpoint \in [Processes -> Endpoints \cup {None}]
    /\ drawn \subseteq Endpoints
    /\ identity \subseteq drawn
    /\ torn \in BOOLEAN
    /\ overlap \in BOOLEAN
    /\ blind \in BOOLEAN
    /\ \A p \in Processes :
          pc[p] \in {"creating", "writing", "reading", "running"} =>
              endpoint[p] \in drawn

(* As long as no two processes start at the same time, and no listing has  *)
(* left out the configuration that was there, all processes run with the   *)
(* same endpoint, also if some are killed while they write it, or fail to  *)
(* read it.                                                                *)
OneIdentity == ~overlap /\ ~blind => Cardinality(identity) <= 1

(* As long as no two processes start at the same time, a start that meets  *)
(* no error of the operating system itself fails only because the writing  *)
(* of the configuration that it has found was interrupted; this is so also *)
(* with several configurations, of which one was left out of a listing.    *)
FailureNeedsTornWrite ==
    ~overlap /\ (\E p \in Processes : pc[p] = "failed") => torn

(* A process runs only with a configuration that is completely on disk, so *)
(* that the next start finds it, also when several start at once.          *)
RunsOnWholeConfig ==
    \A p \in Processes :
        pc[p] = "running" => file[endpoint[p]] = "whole"

(* A configuration, once complete, is not damaged by other processes that  *)
(* start at the same time.                                                 *)
WholeStaysWhole ==
    [][\A e \in Endpoints : file[e] = "whole" => file'[e] = "whole"]_vars

(* As long as starts neither overlap nor are blind, no process has run     *)
(* while there is a partial file, be it that the first start is writing it *)
(* or that this was interrupted.  Nothing mends it in the second case: no  *)
(* start succeeds any more, whatever is tried.                             *)
TornBarsEveryStart ==
    /\ ~overlap /\ ~blind
    /\ \E e \in Endpoints : file[e] = "partial"
    => identity = {}
==============================================================================
