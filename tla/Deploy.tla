------------------------------- MODULE Deploy -------------------------------
(***************************************************************************)
(* grampacker-deploy on the host: deploy, rollback and maintenance, each   *)
(* a script of several steps under one lock, any of which can be its last; *)
(* the app's container, which checks the database before it serves; and    *)
(* the migrate command.                                                    *)
(*                                                                         *)
(* A database is its ledger of migrations and the writes it holds.  Two    *)
(* operators issue the commands: the CI job, which can only deploy, and a  *)
(* person, who keeps to the runbook.                                       *)
(*                                                                         *)
(* Left out: caddy-update, which touches neither the app nor its data; two *)
(* deploys in the same second, refused by name; and the last commits that  *)
(* a power cut may take from a database that syncs at checkpoints.         *)
(***************************************************************************)
EXTENDS Integers, Sequences, FiniteSets, SequencesExt

CONSTANTS
  Image,      \* images
  Migration,  \* migrations: a file and its hash
  Journal,    \* the migrations an image carries, in order
  FirstImage, \* the one that runs at the start, on a host that has one
  NoImage,
  Commands,   \* bound: commands
  Outages,    \* bound: restarts of the host
  SiteWrites  \* bound: writes through the site

ASSUME DeployAssumption ==
  /\ FirstImage \in Image /\ NoImage \notin Image
  /\ Journal \in [Image -> Seq(Migration)]
  /\ {Commands, Outages, SiteWrites} \subseteq Nat

VARIABLES
  maintenance, \* the file maintenance/on exists
  container,   \* the app's container: its image, not stopped, serving
  appImage,    \* APP_IMAGE of deploy.env
  data,        \* data/: there, whole, its ledger and writes
  rollback,    \* rollback/<time>: data and previous-image, by time
  failedData,  \* the data directories moved aside
  scripts,     \* the command each operator runs
  admitted,    \* requests the app is working on: the writes they will make
  committed,   \* writes answered
  commandsLeft, outagesLeft, writesLeft,
  sinceOpen,   \* rollback directories made since the site was last open: properties only
  torn         \* a rollback ended after it moved the data: properties only

siteVars == <<maintenance, container, appImage, data, rollback, failedData>>
deployVars == <<siteVars, scripts, admitted, committed, commandsLeft, outagesLeft, writesLeft,
                sinceOpen, torn>>

Operator == {"ci", "person"}
Script(command, image, time) == [command |-> command, at |-> 1, image |-> image, time |-> time]
Idle == Script("none", NoImage, 0)

-----------------------------------------------------------------------------
(* The ledger of a database against the journal of an image.               *)

\* Every row that both have is the same; either may be longer.
Agrees(image, ledger) ==
  \A i \in DOMAIN Journal[image] \cap DOMAIN ledger : Journal[image][i] = ledger[i]

PendingMigrationCount(image, ledger) ==
  IF Len(ledger) < Len(Journal[image]) THEN Len(Journal[image]) - Len(ledger) ELSE 0

Unchecked(image, ledger) == TRUE
Serves(image, ledger) == Agrees(image, ledger) /\ PendingMigrationCount(image, ledger) = 0

\* One transaction: all that is pending, or nothing.
Migrated(image, ledger) ==
  IF PendingMigrationCount(image, ledger) > 0 THEN Journal[image] ELSE ledger

-----------------------------------------------------------------------------
(* The scripts.                                                            *)

CopyThenStop ==
  <<"close", "copy", "keep", "stop", "migrate", "set image", "start", "open">>
StartThenMigrate ==
  <<"close", "stop", "copy", "keep", "set image", "start", "migrate", "open">>
DeploySteps ==
  <<"close", "stop", "copy", "keep", "migrate", "set image", "start", "open">>

RollbackSteps == <<"stop", "move", "restore", "restored", "set image", "start">>

Steps(command) ==
  CASE command = "deploy" -> DeploySteps
    [] command = "rollback" -> RollbackSteps
    [] command = "on" -> <<"close">>
    [] command = "off" -> <<"open">>

AnyTime(o) == TRUE
LockFree(o) == \A p \in Operator : scripts[p] = Idle

Issued(o, script) ==
  /\ scripts[o] = Idle /\ LockFree(o)
  /\ commandsLeft > 0 /\ commandsLeft' = commandsLeft - 1
  /\ scripts' = [scripts EXCEPT ![o] = script]
  /\ UNCHANGED <<siteVars, admitted, committed, outagesLeft, writesLeft, sinceOpen, torn>>

\* previous is the image of the container there is, running or not.
BeginDeploy ==
  \E o \in Operator, image \in Image :
    Issued(o, Script("deploy", image, commandsLeft))

\* Refused without a previous image, and while the site is open.
BeginRollback ==
  \E time \in DOMAIN rollback :
    /\ rollback[time].image # NoImage
    /\ maintenance
    /\ Issued("person", Script("rollback", rollback[time].image, time))

BeginMaintenance ==
  \E command \in {"on", "off"} : Issued("person", Script(command, NoImage, 0))

At(o, step) == scripts[o] # Idle /\ Steps(scripts[o].command)[scripts[o].at] = step

Onward(o) ==
  LET last == scripts[o].at = Len(Steps(scripts[o].command))
      next == [scripts[o] EXCEPT !.at = @ + 1]
  IN scripts' = [scripts EXCEPT ![o] = IF last THEN Idle ELSE next]

Step(o, step) ==
  /\ At(o, step) /\ Onward(o)
  /\ UNCHANGED <<committed, commandsLeft, outagesLeft, writesLeft, torn>>

CloseSite(o) ==
  /\ Step(o, "close")
  /\ maintenance' = TRUE
  /\ UNCHANGED <<container, appImage, data, rollback, failedData, admitted, sinceOpen>>

OpenSite(o) ==
  /\ Step(o, "open")
  /\ maintenance' = FALSE
  /\ sinceOpen' = {}
  /\ UNCHANGED <<container, appImage, data, rollback, failedData, admitted>>

\* Requests that have not finished within the grace period are cut.
StopApp(o) ==
  /\ Step(o, "stop")
  /\ container' = [container EXCEPT !.wanted = FALSE, !.up = FALSE]
  /\ admitted' = {}
  /\ UNCHANGED <<maintenance, appImage, data, rollback, failedData, sinceOpen>>

\* The copy is made under another name, so that it is not a rollback directory yet.
WithCopy(o, whole) ==
  LET copy == [ledger |-> data.ledger, writes |-> data.writes, whole |-> whole,
               image |-> container.image]
  IN [time \in DOMAIN rollback \cup {scripts[o].time} |->
        IF time = scripts[o].time THEN copy ELSE rollback[time]]
InPlace(o) == WithCopy(o, FALSE)
UnderAnotherName(o) == rollback

BeginCopy(o) ==
  /\ Step(o, "copy") /\ data.there
  /\ rollback' = UnderAnotherName(o)
  /\ UNCHANGED <<maintenance, container, appImage, data, failedData, admitted, sinceOpen>>

KeepCopy(o) ==
  /\ Step(o, "keep")
  /\ rollback' = WithCopy(o, data.whole)
  /\ sinceOpen' = IF maintenance THEN sinceOpen \cup {scripts[o].time} ELSE sinceOpen
  /\ UNCHANGED <<maintenance, container, appImage, data, failedData, admitted>>

Migrate(o) ==
  /\ Step(o, "migrate")
  /\ data.whole /\ Agrees(scripts[o].image, data.ledger)
  /\ data' = [data EXCEPT !.ledger = Migrated(scripts[o].image, @)]
  /\ UNCHANGED <<maintenance, container, appImage, rollback, failedData, admitted, sinceOpen>>

SetAppImage(o) ==
  /\ Step(o, "set image")
  /\ appImage' = scripts[o].image
  /\ UNCHANGED <<maintenance, container, data, rollback, failedData, admitted, sinceOpen>>

\* The container is made again; a server that refuses the database is tried again and again.
Recreated == [image |-> appImage, wanted |-> TRUE,
              up |-> data.there /\ Serves(appImage, data.ledger)]

StartApp(o) ==
  /\ At(o, "start")
  /\ container' = Recreated
  /\ admitted' = {}
  /\ IF Recreated.up THEN Onward(o) ELSE scripts' = [scripts EXCEPT ![o] = Idle]
  /\ UNCHANGED <<maintenance, appImage, data, rollback, failedData, committed, commandsLeft,
                 outagesLeft, writesLeft, sinceOpen, torn>>

NoData == [there |-> FALSE, whole |-> FALSE, ledger |-> <<>>, writes |-> {}]
Dropped(old) == failedData
Aside(old) == failedData \cup {old.writes}

MoveData(o) ==
  /\ Step(o, "move") /\ data.there
  /\ failedData' = Aside(data)
  /\ data' = NoData
  /\ sinceOpen' = {}
  /\ UNCHANGED <<maintenance, container, appImage, rollback, admitted>>

RestoredData(o, whole) ==
  LET kept == rollback[scripts[o].time]
  IN [there |-> TRUE, whole |-> whole /\ kept.whole, ledger |-> kept.ledger,
      writes |-> kept.writes]

BeginRestore(o) ==
  /\ Step(o, "restore")
  /\ data' = RestoredData(o, FALSE)
  /\ UNCHANGED <<maintenance, container, appImage, rollback, failedData, admitted, sinceOpen>>

EndRestore(o) ==
  /\ Step(o, "restored")
  /\ data' = RestoredData(o, TRUE)
  /\ UNCHANGED <<maintenance, container, appImage, rollback, failedData, admitted, sinceOpen>>

\* A command of the script fails, or it is killed: set -e, and nothing is undone.
Cut(o) ==
  /\ scripts[o].command = "rollback"
  /\ \E step \in {"restore", "restored", "set image", "start"} : At(o, step)

ScriptDies ==
  \E o \in Operator :
    /\ scripts[o] # Idle
    /\ scripts' = [scripts EXCEPT ![o] = Idle]
    /\ torn' = (torn \/ Cut(o))
    /\ UNCHANGED <<siteVars, admitted, committed, commandsLeft, outagesLeft, writesLeft, sinceOpen>>

ScriptStep ==
  \E o \in Operator :
    \/ CloseSite(o) \/ OpenSite(o) \/ StopApp(o) \/ BeginCopy(o) \/ KeepCopy(o) \/ Migrate(o)
    \/ SetAppImage(o) \/ StartApp(o) \/ MoveData(o) \/ BeginRestore(o) \/ EndRestore(o)

-----------------------------------------------------------------------------
(* The app and the host.                                                   *)

AppStep(c) ==
  /\ container' = c
  /\ UNCHANGED <<maintenance, appImage, data, rollback, failedData, scripts, committed,
                 commandsLeft, writesLeft, sinceOpen>>

\* restart: unless-stopped.
AppRestarts ==
  /\ container.wanted /\ ~container.up /\ data.there /\ Serves(container.image, data.ledger)
  /\ AppStep([container EXCEPT !.up = TRUE])
  /\ UNCHANGED <<admitted, outagesLeft, torn>>

\* The runbook: restart the prior app after a deploy that failed.
PersonStarts ==
  /\ LockFree("person") /\ ~container.wanted /\ appImage # NoImage
  /\ AppStep(Recreated)
  /\ UNCHANGED <<admitted, outagesLeft, torn>>

Outage ==
  /\ outagesLeft > 0 /\ outagesLeft' = outagesLeft - 1
  /\ container' = [container EXCEPT !.up = FALSE]
  /\ scripts' = [o \in Operator |-> Idle]
  /\ admitted' = {}
  /\ torn' = (torn \/ \E o \in Operator : Cut(o))
  /\ UNCHANGED <<maintenance, appImage, data, rollback, failedData, committed, commandsLeft,
                 writesLeft, sinceOpen>>

Admit ==
  /\ ~maintenance /\ container.up
  /\ writesLeft > 0 /\ writesLeft' = writesLeft - 1
  /\ admitted' = admitted \cup {writesLeft}
  /\ UNCHANGED <<siteVars, scripts, committed, commandsLeft, outagesLeft, sinceOpen, torn>>

CommitWrite ==
  /\ container.up
  /\ \E w \in admitted :
       /\ data' = [data EXCEPT !.writes = @ \cup {w}]
       /\ committed' = committed \cup {w}
       /\ admitted' = admitted \ {w}
  /\ UNCHANGED <<maintenance, container, appImage, rollback, failedData, scripts, commandsLeft,
                 outagesLeft, writesLeft, sinceOpen, torn>>

-----------------------------------------------------------------------------
\* A host that runs an image, or one that is new: its site closed, its database empty.
DeployInit ==
  /\ appImage \in {FirstImage, NoImage}
  /\ maintenance = (appImage = NoImage)
  /\ container = [image |-> appImage, wanted |-> ~maintenance, up |-> ~maintenance]
  /\ data = [there |-> TRUE, whole |-> TRUE, writes |-> {},
             ledger |-> IF maintenance THEN <<>> ELSE Journal[appImage]]
  /\ rollback = [time \in {} |-> 0] /\ failedData = {}
  /\ scripts = [o \in Operator |-> Idle]
  /\ admitted = {} /\ committed = {}
  /\ commandsLeft = Commands /\ outagesLeft = Outages /\ writesLeft = SiteWrites
  /\ sinceOpen = {} /\ torn = FALSE

DeployNext ==
  \/ BeginDeploy \/ BeginRollback \/ BeginMaintenance \/ ScriptStep \/ ScriptDies
  \/ AppRestarts \/ PersonStarts \/ Outage \/ Admit \/ CommitWrite

DeploySpec == DeployInit /\ [][DeployNext]_deployVars

-----------------------------------------------------------------------------
(* Properties.                                                             *)

\* The server never serves a schema older than its code, or one built from other files, nor,
\* unless a rollback was cut short, half a database: whatever step a script, or the host,
\* stopped at, and whatever was run next.
ServesItsSchema ==
  container.up =>
    /\ data.there /\ Agrees(container.image, data.ledger)
    /\ PendingMigrationCount(container.image, data.ledger) = 0
    /\ torn \/ data.whole

\* A rollback directory is never half a copy, and the server of its image starts on its data:
\* the way back from a deploy works, unless a rollback was cut short before.
WayBackWorks ==
  ~torn => \A time \in DOMAIN rollback :
    /\ rollback[time].whole
    /\ rollback[time].image # NoImage => Serves(rollback[time].image, rollback[time].ledger)

\* Going back while the site is still closed loses no write: the copy was made once nothing
\* could write any more.
NothingSinceTheCopy ==
  \A time \in sinceOpen : rollback[time].writes = data.writes

\* No command destroys a write that was answered: it is in data/, in a rollback directory or
\* in a directory moved aside.
EveryWriteSomewhere ==
  committed \subseteq data.writes \cup UNION failedData
                        \cup UNION {rollback[time].writes : time \in DOMAIN rollback}

\* No stop of a script, no restart and no rollback loses a write for good: every
\* directory to go back to can be gone back to, nothing was written between its copy
\* and the site's opening, and what a rollback gives up is set aside.
NoWriteLost == WayBackWorks /\ NothingSinceTheCopy /\ EveryWriteSomewhere
=============================================================================
