----------------------------- MODULE UtcSession -----------------------------
(***************************************************************************)
(* core/utc_session.py: timestamps of databases that were created when     *)
(* sqlmodel still stored them in columns without a time zone.  PostgreSQL  *)
(* casts between such a column and a value with a zone in the zone of the  *)
(* session: when a row is written, when it is compared with the bounds of  *)
(* the dashboard's window, and when a migration alters the column.         *)
(*                                                                         *)
(* A session inherits the server's zone.  SET TIME ZONE in a transaction   *)
(* is undone by its ROLLBACK, and the pool rolls back every connection     *)
(* that is returned to it.                                                 *)
(***************************************************************************)
EXTENDS Integers

CONSTANTS
  Connections,  \* of the service engine's pool
  Alembic,      \* the one connection of alembic/env.py
  Instants,     \* instants at which rows are written, in hours
  ServerZone    \* the server's zone, in hours east of UTC

ASSUME ZoneAssumption ==
  Instants \subseteq Int /\ ServerZone \in Int /\ Alembic \notin Connections

VARIABLES
  release,   \* which mapping the service has: the one without zones, or the present one
  column,    \* the type of the timestamp columns
  stamps,    \* timestamps: the instant that was meant, the hour that is stored
  sessions   \* each connection: its zone, and what a ROLLBACK makes of it

utcVars == <<release, column, stamps, sessions>>

AllConnections == Connections \cup {Alembic}
Closed == [open |-> FALSE, zone |-> 0, undone |-> 0]
InZone(z) == [open |-> TRUE, zone |-> z, undone |-> z]
IsOpen(c) == sessions[c].open

-----------------------------------------------------------------------------

\* A database of the old release, or one that this release created.
UtcInit ==
  /\ \/ release = "old" /\ column = "naive"
     \/ release = "present" /\ column = "aware"
  /\ stamps = {}
  /\ sessions = [c \in AllConnections |-> Closed]

\* Mutant of SetSessionUtc: SET runs in the transaction that psycopg begins.
SetInTransaction == [open |-> TRUE, zone |-> 0, undone |-> ServerZone]

\* set_session_utc: with autocommit on, no ROLLBACK undoes it.
SetSessionUtc == InZone(0)

\* Mutant of PinUtcSession: only the service's own engine is pinned.
PinOwnEngine(c) == IF c = Alembic THEN InZone(ServerZone) ELSE SetSessionUtc

\* pin_utc_session: the listener runs for every connection of both engines.
PinUtcSession(c) == SetSessionUtc

Connect(c) ==
  /\ ~IsOpen(c)
  /\ sessions' = [sessions EXCEPT ![c] = IF release = "old" THEN InZone(ServerZone)
                                         ELSE PinUtcSession(c)]
  /\ UNCHANGED <<release, column, stamps>>

\* Lost, or recycled by the pool.
Disconnect(c) ==
  /\ IsOpen(c)
  /\ sessions' = [sessions EXCEPT ![c] = Closed]
  /\ UNCHANGED <<release, column, stamps>>

\* The connection goes back to the pool: its transaction is rolled back.
Return(c) ==
  /\ IsOpen(c)
  /\ sessions' = [sessions EXCEPT ![c].zone = sessions[c].undone]
  /\ UNCHANGED <<release, column, stamps>>

\* The hour that a column without zone keeps of instant i written in zone z: the
\* old release binds the hour in UTC, the present one a value with a zone.
StoredAs(i, z) == IF column = "naive" /\ release = "present" THEN i + z ELSE i

\* A COMMIT makes a SET of its transaction last.
Store(c) ==
  /\ c \in Connections /\ IsOpen(c)
  /\ \E i \in Instants :
       stamps' = stamps \cup {[meant |-> i, stored |-> StoredAs(i, sessions[c].zone)]}
  /\ sessions' = [sessions EXCEPT ![c].undone = sessions[c].zone]
  /\ UNCHANGED <<release, column>>

\* The instant that a session in zone z takes a stored hour for.
AsInstant(hour, z) == IF column = "naive" THEN hour - z ELSE hour

\* ALTER COLUMN ... TYPE timestamptz, from a later autogenerate.
Alter ==
  /\ release = "present" /\ column = "naive" /\ IsOpen(Alembic)
  /\ column' = "aware"
  /\ stamps' = {[s EXCEPT !.stored = AsInstant(s.stored, sessions[Alembic].zone)] : s \in stamps}
  /\ UNCHANGED <<release, sessions>>

Deploy ==
  /\ release = "old"
  /\ release' = "present"
  /\ sessions' = [c \in AllConnections |-> Closed]
  /\ UNCHANGED <<column, stamps>>

UtcNext ==
  \/ \E c \in AllConnections : Connect(c) \/ Disconnect(c) \/ Return(c) \/ Store(c)
  \/ Alter \/ Deploy

UtcSpec == UtcInit /\ [][UtcNext]_utcVars

-----------------------------------------------------------------------------
(* Properties. *)

\* Whatever the server's zone, the stored hour is the one in UTC of the instant that
\* was meant: for rows of the old release, for those written by this one into columns it
\* inherited, on connections that were returned and reused, and after the migration.
InstantsKept == \A s \in stamps : s.stored = s.meant

\* The dashboard and the migration compare and convert what is stored to the instant
\* that was meant, on every connection of this release.
ComparedAsMeant ==
  release = "present" =>
    \A c \in {d \in AllConnections : IsOpen(d)}, s \in stamps :
      AsInstant(s.stored, sessions[c].zone) = s.meant

\* The types, and what both properties rest on: this release has no session in
\* another zone, nor one that a ROLLBACK brings back there.
UtcInv ==
  /\ release \in {"old", "present"} /\ column \in {"naive", "aware"}
  /\ release = "old" => column = "naive"
  /\ stamps \subseteq [meant : Int, stored : Int]
  /\ sessions \in [AllConnections -> [open : BOOLEAN, zone : Int, undone : Int]]
  /\ release = "present" => \A c \in AllConnections : sessions[c] \in {Closed, InZone(0)}
  /\ InstantsKept

=============================================================================
