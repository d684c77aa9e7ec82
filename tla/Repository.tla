----------------------------- MODULE Repository -----------------------------
(***************************************************************************)
(* The commands that write a repository's files: init --host and doctor    *)
(* --fix (cmd/pitot/wire.go, deepseek_wiring.go), init (workbench.go) and  *)
(* install (install.go).  Each is a process that may be cut off between    *)
(* any two writes, while users save the host configuration.                *)
(*                                                                         *)
(* os.WriteFile empties a file and then writes it: two steps.              *)
(***************************************************************************)
EXTENDS Wiring, Tenancy

CONSTANTS
  Procs, Names, Templates,
  Scaffold(_, _),   \* the fragment init writes for a name and a template
  Top,              \* directories 1 .. Top, the outermost last
  Jobs,             \* command lines
  Starts,           \* what a repository may hold at first
  UserConfigs,      \* what a user may save as host configuration
  MaxEdits          \* bound on the number of saves

Dirs == 1 .. Top

CommandLines ==
  [cmd : {"wire", "deepseek", "scaffold", "install", "revert"}, force : BOOLEAN,
   cwd : Dirs, root : Dirs, name : Names, template : Templates]

Entries == Foreign \cup Marked
Configs ==
  [state : {"absent", "truncated", "broken", "malformed", "read"},
   entries : Seq(Entries), elsewhere : BOOLEAN]
NpmFiles == [there : BOOLEAN, lines : Seq(Foreign \cup {"own", "blank"})]
Plugins ==
  LET File == {"absent", "truncated", "own", "edited"}
  IN  [code : File, manifest : File]

(* Commands run in one of the directories; at first the outermost one      *)
(* holds registrations that merge, each with its project.                  *)
ASSUME RepositoryAssumption ==
  /\ Top \in Nat \ {0}
  /\ Jobs \subseteq CommandLines
  /\ UserConfigs \subseteq Configs
  /\ \A s \in Starts :
       /\ s.config \in Configs /\ s.npmrc \in NpmFiles /\ s.plugin \in Plugins
       /\ DOMAIN s.tenants = Names
       /\ Merges(s.tenants)
       /\ Present(s.tenants) \subseteq s.projects
  /\ "user" \notin Procs

VARIABLES
  boundary,   \* directories with a .git
  tenants,    \* directory -> name -> fragment file
  project,    \* <<directory, name>> of the projects whose files exist
  substrate,  \* directory -> its pin and its shim, .pitot/bin/pitot
  bridge,     \* directory -> the bridge script
  config,     \* directory -> the host configuration
  witness,    \* directory -> .pitot/hooks/<host>.fragment.json
  plugin,     \* directory -> the two files of .pitot/deepseek
  npmrc,      \* [there, lines]; no file and an empty one have one blank line
  pc,
  job,        \* command line and, once found, root
  read,       \* what the process is about to write
  edits,
  users,      \* the foreign entries last saved, by directory, and the
              \* foreign lines of .npmrc (history)
  overtaken,  \* what was changed while a process had already read it
              \* (history)
  last        \* directory -> who emptied or saved its configuration last, and
              \* who emptied its witness (history)

tenancy == <<tenants, project>>
hosted  == <<bridge, config, witness, last>>
user    == <<edits, users>>
vars == <<boundary, tenancy, substrate, hosted, plugin, npmrc, pc, job, read,
          user, overtaken>>

UsersLines(lines) == Without(lines, {"own", "blank"})

AtTop(v, none) == [d \in Dirs |-> IF d = Top THEN v ELSE none]

Init ==
  /\ boundary \in SUBSET (Dirs \ {Top})
  /\ \E s \in Starts :
       /\ tenants = AtTop(s.tenants, [n \in Names |-> NoFile])
       /\ project = {Top} \X s.projects
       /\ bridge  = AtTop(s.bridge, "absent")
       /\ config  = AtTop(s.config, Bare("absent"))
       /\ witness = AtTop(s.witness, "absent")
       /\ plugin  = AtTop(s.plugin, [code |-> "absent", manifest |-> "absent"])
       /\ npmrc   = s.npmrc
       /\ substrate = AtTop([pin |-> s.substrate, shim |-> s.substrate],
                            [pin |-> "absent", shim |-> "absent"])
       /\ users   = [entries |-> AtTop(ForeignOf(s.config), <<>>),
                     lines |-> UsersLines(s.npmrc.lines)]
  /\ pc = [p \in Procs |-> "start"]
  /\ job \in [Procs -> Jobs]
  /\ read = [p \in Procs |-> Bare("absent")]
  /\ edits = 0
  /\ overtaken = {}
  /\ last = [d \in Dirs |-> [config |-> "user", witness |-> "user"]]

At(p, place) == pc[p] = place
To(p, place) == pc' = [pc EXCEPT ![p] = place]
Goes(p, from, to) == At(p, from) /\ To(p, to)

Name(p) == job[p].name
Cwd(p)  == job[p].cwd
Root(p) == job[p].root

-----------------------------------------------------------------------------
(* init --host, and doctor --fix, which is init --host --force             *)

Owned == {d \in Dirs : Present(tenants[d]) # {}}

StartHost(p) ==
  /\ \/ job[p].cmd = "wire" /\ Goes(p, "start", "substrate")
     \/ job[p].cmd = "deepseek" /\ Goes(p, "start", "inspect")
  /\ job' = [job EXCEPT ![p].root = RootOf(Cwd(p), Top, Owned, boundary)]
  /\ UNCHANGED <<boundary, tenancy, substrate, hosted, plugin, npmrc, read,
                 user, overtaken>>

(* A file that is there is kept, whatever is in it.                        *)
Ensure(p, file, from, writing, to) ==
  LET now == substrate[Cwd(p)][file] IN
  \/ now # "absent" /\ Goes(p, from, to) /\ UNCHANGED substrate
  \/ /\ now = "absent" /\ Goes(p, from, writing)
     /\ substrate' = [substrate EXCEPT ![Cwd(p)][file] = "truncated"]
  \/ /\ Goes(p, writing, to)
     /\ substrate' = [substrate EXCEPT ![Cwd(p)][file] = "whole"]

(* The pin and the shim of the working directory, not of the root.         *)
Substrate(p) ==
  /\ \/ Ensure(p, "pin", "substrate", "write pin", "shim")
     \/ Ensure(p, "shim", "shim", "write shim",
               IF job[p].cmd = "wire" THEN "gate" ELSE "done")
  /\ UNCHANGED <<boundary, tenancy, hosted, plugin, npmrc, job, read, user,
                 overtaken>>

(* A drifted entry needs force; an error of Check stays one under force.   *)
Passes(p) ==
  \/ witness[Root(p)] = "absent"
  \/ LET state == Check(witness[Root(p)], config[Root(p)]) IN
     state \in {"FOUND", "MISSING"} \/ (state = "DRIFTED" /\ job[p].force)

Gate(p) ==
  /\ Goes(p, "gate", IF Passes(p) THEN "bridge" ELSE "failed")
  /\ UNCHANGED <<boundary, tenancy, substrate, hosted, plugin, npmrc, job,
                 read, user, overtaken>>

Kept(p) == bridge[Root(p)] # "absent" /\ ~job[p].force

WriteBridge(p) ==
  /\ \/ Kept(p) /\ Goes(p, "bridge", "read") /\ UNCHANGED bridge
     \/ /\ ~Kept(p) /\ Goes(p, "bridge", "write bridge")
        /\ bridge' = [bridge EXCEPT ![Root(p)] = "truncated"]
     \/ /\ Goes(p, "write bridge", "read")
        /\ bridge' = [bridge EXCEPT ![Root(p)] = "current"]
  /\ UNCHANGED <<boundary, tenancy, substrate, config, witness, last, plugin,
                 npmrc, job, read, user, overtaken>>

ReadConfig(p) ==
  LET c == config[Root(p)] IN
  /\ IF Refused(c)
       THEN Goes(p, "read", "failed") /\ UNCHANGED read
       ELSE Goes(p, "read", "empty config")
            /\ read' = [read EXCEPT ![p] = Merge(c)]
  /\ UNCHANGED <<boundary, tenancy, substrate, hosted, plugin, npmrc, job,
                 user, overtaken>>

WriteConfig(p) ==
  /\ \/ /\ Goes(p, "empty config", "write config")
        /\ config' = [config EXCEPT ![Root(p)] = Bare("truncated")]
     \/ /\ Goes(p, "write config", "empty witness")
        /\ config' = [config EXCEPT ![Root(p)] = read[p]]
  /\ last' = [last EXCEPT ![Root(p)].config = IF At(p, "empty config")
                                                THEN p ELSE @]
  /\ UNCHANGED <<boundary, tenancy, substrate, bridge, witness, plugin, npmrc,
                 job, read, user, overtaken>>

WriteWitness(p) ==
  /\ \/ /\ Goes(p, "empty witness", "write witness")
        /\ witness' = [witness EXCEPT ![Root(p)] = "truncated"]
     \/ /\ Goes(p, "write witness", "done")
        /\ witness' = [witness EXCEPT ![Root(p)] = "canonical"]
  /\ last' = [last EXCEPT ![Root(p)].witness = p]
  /\ UNCHANGED <<boundary, tenancy, substrate, bridge, config, plugin, npmrc,
                 job, read, user, overtaken>>

(* Both of DeepSeek's files are looked at before either is written.        *)
Inspect(p) ==
  LET f == plugin[Root(p)] IN
  /\ Goes(p, "inspect",
          IF job[p].force \/ {f.code, f.manifest} \subseteq {"absent", "own"}
            THEN "write plugin" ELSE "failed")
  /\ UNCHANGED <<boundary, tenancy, substrate, hosted, plugin, npmrc, job,
                 read, user, overtaken>>

(* In either order; the substrate is ensured once both are written.        *)
WritePlugin(p, file, content) ==
  LET f == [plugin[Root(p)] EXCEPT ![file] = content] IN
  /\ Goes(p, "write plugin",
          IF f.code = "own" /\ f.manifest = "own" THEN "substrate"
                                                  ELSE "write plugin")
  /\ content = "own" => plugin[Root(p)][file] = "truncated"
  /\ plugin' = [plugin EXCEPT ![Root(p)] = f]
  /\ UNCHANGED <<boundary, tenancy, substrate, hosted, npmrc, job, read, user,
                 overtaken>>

-----------------------------------------------------------------------------
(* init: a tenant of its own, in the conf.d of the working directory       *)

(* The registration must merge with what is there.                         *)
Registering(p) ==
  /\ job[p].cmd = "scaffold"
  /\ Goes(p, "start",
          IF Preflight(tenants[Cwd(p)], Name(p),
                       Scaffold(Name(p), job[p].template))
            THEN "conflicts" ELSE "failed")
  /\ UNCHANGED <<boundary, tenancy, substrate, hosted, plugin, npmrc, job,
                 read, user, overtaken>>

(* An existing fragment or project file belongs to somebody.               *)
Conflicts(p) ==
  /\ Goes(p, "conflicts",
          IF \/ job[p].force
             \/ /\ tenants[Cwd(p)][Name(p)] = NoFile
                /\ <<Cwd(p), Name(p)>> \notin project
            THEN "write project" ELSE "failed")
  /\ UNCHANGED <<boundary, tenancy, substrate, hosted, plugin, npmrc, job,
                 read, user, overtaken>>

(* Project files first, the fragment after them.                           *)
Register(p) ==
  /\ \/ /\ Goes(p, "write project", "empty fragment")
        /\ project' = project \cup {<<Cwd(p), Name(p)>>}
        /\ UNCHANGED tenants
     \/ /\ Goes(p, "empty fragment", "write fragment")
        /\ tenants' = [tenants EXCEPT ![Cwd(p)][Name(p)] = Cut]
        /\ UNCHANGED project
     \/ /\ Goes(p, "write fragment", "substrate")
        /\ tenants' = [tenants EXCEPT ![Cwd(p)][Name(p)] =
                         Scaffold(Name(p), job[p].template)]
        /\ UNCHANGED project
  /\ overtaken' = overtaken \cup
       IF \E q \in Procs \ {p} : Cwd(q) = Cwd(p) /\ pc[q] \in
            {"conflicts", "write project", "empty fragment", "write fragment"}
         THEN {<<"tenants", Cwd(p)>>} ELSE {}
  /\ UNCHANGED <<boundary, substrate, hosted, plugin, npmrc, job, read, user>>

-----------------------------------------------------------------------------
(* install and install --revert: Pitot's one line of .npmrc                *)

(* The own line last, blank lines gone.                                    *)
Upsert(lines) ==
  [there |-> TRUE, lines |-> Append(UsersLines(lines), "own")]

(* A file with nothing else in it is removed.                              *)
Reverted(lines) ==
  LET kept == Without(lines, {"own"}) IN
  IF kept = <<>> THEN [there |-> FALSE, lines |-> <<"blank">>]
                 ELSE [there |-> TRUE, lines |-> kept]

ReadNpm(p) ==
  /\ \/ /\ job[p].cmd = "install"
        /\ Goes(p, "start", "empty npmrc")
        /\ read' = [read EXCEPT ![p] = Upsert(npmrc.lines)]
     \/ /\ job[p].cmd = "revert" /\ npmrc.there
        /\ Goes(p, "start", IF Reverted(npmrc.lines).there
                              THEN "empty npmrc" ELSE "write npmrc")
        /\ read' = [read EXCEPT ![p] = Reverted(npmrc.lines)]
  /\ overtaken' = overtaken \cup
       IF \E q \in Procs : At(q, "write npmrc") THEN {<<"npmrc", Top>>} ELSE {}
  /\ UNCHANGED <<boundary, tenancy, substrate, hosted, plugin, npmrc, job,
                 user>>

WriteNpm(p) ==
  /\ \/ /\ Goes(p, "empty npmrc", "write npmrc")
        /\ npmrc' = [there |-> TRUE, lines |-> <<"blank">>]
     \/ Goes(p, "write npmrc", "done") /\ npmrc' = read[p]
  /\ UNCHANGED <<boundary, tenancy, substrate, hosted, plugin, job, read, user,
                 overtaken>>

-----------------------------------------------------------------------------
(* Around them                                                             *)

Stop(p) ==
  /\ pc[p] \notin {"start", "done", "failed", "stopped"}
  /\ To(p, "stopped")
  /\ overtaken' = overtaken \cup
       IF At(p, "write npmrc") THEN {<<"npmrc", Top>>} ELSE {}
  /\ UNCHANGED <<boundary, tenancy, substrate, hosted, plugin, npmrc, job,
                 read, user>>

(* A user, or the host itself, saves the host configuration.               *)
Save(d, c) ==
  /\ edits < MaxEdits
  /\ edits' = edits + 1
  /\ config' = [config EXCEPT ![d] = c]
  /\ users' = [users EXCEPT !.entries[d] = ForeignOf(c)]
  /\ last' = [last EXCEPT ![d].config = "user"]
  /\ overtaken' = overtaken \cup
       IF \E p \in Procs : Root(p) = d /\ pc[p] \in {"empty config",
                                                     "write config"}
         THEN {<<"config", d>>} ELSE {}
  /\ UNCHANGED <<boundary, tenancy, substrate, bridge, witness, plugin, npmrc,
                 pc, job, read>>

Next ==
  \/ \E p \in Procs :
       \/ StartHost(p) \/ Substrate(p) \/ Gate(p) \/ WriteBridge(p)
       \/ ReadConfig(p) \/ WriteConfig(p) \/ WriteWitness(p) \/ Inspect(p)
       \/ \E file \in {"code", "manifest"}, content \in {"truncated", "own"} :
            WritePlugin(p, file, content)
       \/ Registering(p) \/ Conflicts(p) \/ Register(p)
       \/ ReadNpm(p) \/ WriteNpm(p)
       \/ Stop(p)
  \/ \E d \in Dirs, c \in UserConfigs : Save(d, c)

Spec == Init /\ [][Next]_vars

-----------------------------------------------------------------------------
(* What is not Pitot's stays: wiring keeps every foreign entry in order    *)
(* (Merge), unless a save came between its read and its write, and install *)
(* and its revert keep every foreign line of .npmrc (upsertNPMRC,          *)
(* revertNPM).  A file that a process emptied and did not write is not     *)
(* looked at.  DeepSeek's files, once edited, need --force.                *)
ForeignSurvives ==
  /\ \A d \in Dirs :
       \/ config[d].state # "read" \/ <<"config", d>> \in overtaken
       \/ ForeignOf(config[d]) = users.entries[d]
  /\ \/ <<"npmrc", Top>> \in overtaken \/ \E p \in Procs : At(p, "write npmrc")
     \/ UsersLines(npmrc.lines) = users.lines

(* What a command reported done is done.  A wiring whose configuration and *)
(* witness nobody wrote after reads as FOUND (runWireHost, Check); none of *)
(* DeepSeek's files is somebody else's.                                    *)
DoneIsFound ==
  \A p \in Procs : At(p, "done") =>
    /\ /\ job[p].cmd = "wire"
       /\ last[Root(p)] = [config |-> p, witness |-> p]
       => Check(witness[Root(p)], config[Root(p)]) = "FOUND"
    /\ job[p].cmd = "deepseek" =>
         plugin[Root(p)].code # "edited" /\ plugin[Root(p)].manifest # "edited"

(* "every entry and bridge references .pitot/bin/..., never a PATH binary, *)
(* so the pin laws hold end to end" (wiring.go:12-13): once every command  *)
(* has ended, the entry of a wiring reported done leads to a whole shim    *)
(* under the root that holds the entry, over no half bridge, and the shim  *)
(* finds its pin.                                                          *)
WiringRunsTheShim ==
  \A p \in Procs :
    /\ job[p].cmd = "wire" /\ At(p, "done")
    /\ last[Root(p)] = [config |-> p, witness |-> p]
    /\ \A q \in Procs : pc[q] \in {"start", "done", "failed", "stopped"}
    =>
    /\ substrate[Root(p)] = [pin |-> "whole", shim |-> "whole"]
    /\ bridge[Root(p)] # "truncated"

(* A registration never breaks the ones that were there: the fragments of  *)
(* a directory merge (Preflight, mergeSources), but for one a process was  *)
(* cut off from writing, and for two registrations at once; and each names *)
(* a project whose files were written before it.                           *)
TenantsMerge ==
  \A d \in Dirs :
    /\ \/ <<"tenants", d>> \in overtaken
       \/ Merges([n \in Names |-> IF tenants[d][n] = Cut THEN NoFile
                                                         ELSE tenants[d][n]])
    /\ \A n \in Present(tenants[d]) : <<d, n>> \in project
=============================================================================
