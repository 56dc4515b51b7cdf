------------------------------ MODULE Startup -------------------------------
(***************************************************************************)
(* The proxy from its start to its lookups: setup_server, load_routes and  *)
(* the checks of main.c, then find_backend (module RouteLookup) on the     *)
(* table that was loaded, for one request path after the other.            *)
(*                                                                         *)
(* A line of the file is what it says and the chunks in which fgets hands  *)
(* it out: a line that does not fit into line[MAX_PREFIX_LEN] comes in     *)
(* several, the newline of one that just fits in a chunk of its own.       *)
(***************************************************************************)
EXTENDS RouteLookup

CONSTANTS
    Files,         \* configuration files, sequences of lines
    MAX_ROUTES

\* The lines of the files, and the texts of their chunks.
FileLines == UNION {ToSet(f) : f \in Files}
FileTexts == UNION {ToSet(line.chunks) : line \in FileLines}

ASSUME FilesAssumption ==
    /\ Files \subseteq Seq(FileLines) /\ \A line \in FileLines : line.chunks \in Seq(FileTexts)
    /\ MAX_ROUTES \in Nat
\* Among the tables are those that the files' routes make up.
ASSUME RoomAssumption ==
    /\ <<>> \in Tables
    /\ \A table \in Tables, text \in FileTexts :
          Len(table) < MAX_ROUTES /\ text.kind = "route" => Append(table, text.route) \in Tables

VARIABLES
    phase,         \* "setup", "open", "load", "serve" or "exited"
    file,
    rest           \* the chunks not yet read

loadVars == <<phase, file, rest>>

Text(kind, route) == [kind |-> kind, route |-> route]
Line(says, chunks) == [says |-> says, chunks |-> chunks]

StartInit ==
    /\ Init /\ routes = <<>> /\ path = <<>>
    /\ phase = "setup"
    /\ file \in Files
    /\ rest = <<>>

\* socket, setsockopt, bind or listen fails, or the file cannot be opened
Fails ==
    /\ phase \in {"setup", "open"}
    /\ phase' = "exited"
    /\ UNCHANGED <<file, rest, vars>>

Listen ==
    /\ phase = "setup"
    /\ phase' = "open"
    /\ UNCHANGED <<file, rest, vars>>

OpenFile ==
    /\ phase = "open"
    /\ phase' = "load"
    /\ rest' = FlattenSeq([n \in DOMAIN file |-> file[n].chunks])
    /\ UNCHANGED <<file, vars>>

\* Faulty variant: one route more than the array holds.
RoomForOneMore(count) == count <= MAX_ROUTES

\* count < max_routes
RoomAfter(count) == count < MAX_ROUTES

\* An empty line, a comment, a line of fewer than three parts.
SkipChunk ==
    /\ phase = "load" /\ rest # <<>> /\ RoomAfter(Len(routes))
    /\ Head(rest).kind # "route"
    /\ rest' = Tail(rest)   \* continue
    /\ UNCHANGED <<phase, file, vars>>

LoadRoute ==
    /\ phase = "load" /\ rest # <<>> /\ RoomAfter(Len(routes))
    /\ Head(rest).kind = "route"
    /\ routes' = Append(routes, Head(rest).route)
    /\ rest' = Tail(rest)
    /\ UNCHANGED <<phase, file, pc, path, i, best_match, best_match_len>>

\* fgets has nothing more, or read one chunk too many; route_count <= 0 ends main.
EndLoad ==
    /\ phase = "load"
    /\ rest = <<>> \/ ~RoomAfter(Len(routes))
    /\ phase' = IF routes = <<>> THEN "exited" ELSE "serve"
    /\ path' \in Paths    \* of the first request
    /\ UNCHANGED <<file, rest, pc, routes, i, best_match, best_match_len>>

\* A step of find_backend.
Lookup == phase = "serve" /\ Next /\ UNCHANGED loadVars

\* main calls find_backend for the next request.
NextRequest ==
    /\ phase = "serve" /\ pc = "done"
    /\ pc' = "enter"
    /\ path' \in Paths
    /\ i' = 1 /\ best_match' = NoBackend /\ best_match_len' = 0
    /\ UNCHANGED <<routes, loadVars>>

StartNext ==
    Fails \/ Listen \/ OpenFile \/ SkipChunk \/ LoadRoute \/ EndLoad \/ Lookup \/ NextRequest

StartSpec == StartInit /\ [][StartNext]_<<vars, loadVars>>

-----------------------------------------------------------------------------
\* The routes among texts, in their order.
RoutesAmong(texts) ==
    LET kept[n \in 0 .. Len(texts)] ==
            IF n = 0 THEN <<>>
            ELSE IF texts[n].kind = "route" THEN Append(kept[n - 1], texts[n].route)
            ELSE kept[n - 1]
    IN  kept[Len(texts)]

\* What a reader of the file expects: the routes its lines say.
Written == RoutesAmong([n \in DOMAIN file |-> file[n].says])

\* A line of up to 31 characters, the newline not counted.
Fits(line) == line.chunks \in {<<line.says>>, <<line.says, Text("blank", <<>>)>>}

\* "Number of routes load" (include/route_config.h:42): no more routes than the
\* array holds; and when all lines fit, the proxy serves the file's first
\* routes in their order, whatever lies between them.
LoadedAsWritten ==
    /\ Len(routes) <= MAX_ROUTES
    /\ phase = "serve" /\ (\A n \in DOMAIN file : Fits(file[n])) =>
          LET first == IF Len(Written) < MAX_ROUTES THEN Len(Written) ELSE MAX_ROUTES
          IN  routes = SubSeq(Written, 1, first)

=============================================================================
