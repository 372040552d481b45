------------------------------ MODULE UserData ------------------------------
(***************************************************************************)
(* process-user-data in the pod VM: the choice of a source for the user    *)
(* data that CreateVM composed, its retrieval with retries, the writing of *)
(* the files it may contain, and the extraction of the initdata with the   *)
(* digest that attesters use.  Writes fail, leave files cut short, and the *)
(* path unit starts the program again when the user data is a file.        *)
(*                                                                         *)
(* Time passes in units of the delay between two attempts.                 *)
(***************************************************************************)
EXTENDS Integers, Sequences

CONSTANTS Sources,       \* where the VM's cloud keeps the user data
          Configs,       \* the cloud configs of the VMs
          MaxAttempts,   \* external: the number of attempts of retry.Do
          Deadline,      \* fetchTimeout in units of the delay
          MaxRuns        \* bound: how often the program is started

VARIABLES
  source,         \* the VM's cloud
  config,         \* write_files: a sequence of [path, content]
  fs,             \* the files in /run/peerpod: path -> content
  pc, run, clock, attempts,
  written,        \* how many files of the cloud config were processed
  todo,           \* the files of the initdata still to be written
  parsed          \* the initdata that was read

userVars == <<source, config, fs, pc, run, clock, attempts, written, todo, parsed>>

Imds == {"azure", "aws", "gcp", "alibabacloud"}
AllSources == Imds \cup {"file", "none"}

Paths == {"aa", "cdh", "apf", "auth", "initdata", "scratch", "policy", "digest", "other"}
writeFiles == {"aa", "cdh", "apf", "auth", "initdata", "scratch"}
initdataFiles == {"aa", "cdh", "policy"}

\* The files in an initdata: a complete one, one with a file that is not
\* allowed, and the dummy.  A bad one cannot be parsed.
Initdata == {"full", "odd", "dummy"}
Data(id) == CASE id = "full" -> {"aa", "cdh", "policy"}
              [] id = "odd" -> {"cdh", "other"}
              [] OTHER -> {"aa"}

Absent == "absent"
Cut == "cut"
Contents == Initdata \cup {"bad", "given", Absent, Cut}

\* CreateVM's cloud config: apf.json always, the others as the Pod has them.
Entry(path, content) == <<[path |-> path, content |-> content]>>
AuthEntry == {<< >>, Entry("auth", "given")}
InitdataEntry == {<< >>} \cup {Entry("initdata", c) : c \in {"full", "odd", "bad"}}
ScratchEntry == {<< >>, Entry("scratch", "given")}
CloudConfigs ==
  {Entry("apf", "given") \o a \o i \o s : a \in AuthEntry, i \in InitdataEntry, s \in ScratchEntry}

UserInit ==
  /\ source \in Sources
  /\ config \in Configs
  /\ fs = [p \in Paths |-> Absent]
  /\ pc = "start" /\ run = 1 /\ clock = 0 /\ attempts = 0
  /\ written = 0 /\ todo = {} /\ parsed = Absent

----------------------------------------------------------------------------
\* The heuristics: a file and the processor's tables tell at once.  The tables
\* of the firmware, which tell AWS and Alibaba Cloud, may be unreadable, and
\* GCP's metadata server, which is asked once, may not answer.
Recognised(s) == CASE s \in {"file", "azure"} -> {TRUE}
                   [] s = "none" -> {FALSE}
                   [] OTHER -> BOOLEAN

\* newProvider; without a provider ProvisionFiles goes on with the initdata.
newProvider ==
  /\ pc = "start"
  /\ \E known \in Recognised(source) : pc' = IF known THEN "retrieve" ELSE "extract"
  /\ UNCHANGED <<source, config, fs, run, clock, attempts, written, todo, parsed>>

\* One attempt of retrieveCloudConfig: GetUserData and parseUserData.  A
\* failed request takes no time or a long one; then the delay follows.
Attempt ==
  /\ pc = "retrieve" /\ clock < Deadline
  /\ \/ pc' = "write" /\ attempts' = 0 /\ clock' = 0
     \/ attempts + 1 = MaxAttempts /\ pc' = "unfetched" /\ attempts' = 0 /\ clock' = 0
     \/ /\ attempts + 1 < MaxAttempts /\ attempts' = attempts + 1 /\ UNCHANGED pc
        /\ \E d \in {1, 10} : clock' = clock + d
  /\ UNCHANGED <<source, config, fs, run, written, todo, parsed>>

\* The context of ProvisionFiles has expired.
TimeOut ==
  /\ pc = "retrieve" /\ clock >= Deadline
  /\ pc' = "unfetched" /\ attempts' = 0 /\ clock' = 0
  /\ UNCHANGED <<source, config, fs, run, written, todo, parsed>>

\* Faulty variant of Written: the error of the write is not returned.
WrittenIgnored(path, content, next) ==
  fs' \in {fs, [fs EXCEPT ![path] = content], [fs EXCEPT ![path] = Cut]} /\ next

\* What writeFile may do: write, or fail with the file as it was or cut short.
Written(path, content, next) ==
  \/ fs' = [fs EXCEPT ![path] = content] /\ next
  \/ fs' \in {fs, [fs EXCEPT ![path] = Cut]} /\ pc' = "failed"

isAllowed(path, files) == path \in files

\* processCloudConfig, one file of the list, in order.
processCloudConfig ==
  /\ pc = "write" /\ written < Len(config)
  /\ LET wf == config[written + 1]
     IN IF isAllowed(wf.path, writeFiles)
        THEN Written(wf.path, wf.content, UNCHANGED pc)
        ELSE UNCHANGED <<fs, pc>>
  /\ written' = written + 1
  /\ UNCHANGED <<source, config, run, clock, attempts, todo, parsed>>

processCloudConfigEnd ==
  /\ pc = "write" /\ written = Len(config)
  /\ pc' = "extract"
  /\ UNCHANGED <<source, config, fs, run, clock, attempts, written, todo, parsed>>

\* generateDummyInitdata, if there is no initdata.
generateDummyInitdata ==
  /\ pc = "extract" /\ fs["initdata"] = Absent
  /\ Written("initdata", "dummy", UNCHANGED pc)
  /\ UNCHANGED <<source, config, run, clock, attempts, written, todo, parsed>>

\* initdata.Parse; the files follow in the order of a Go map.
Parse ==
  /\ pc = "extract" /\ fs["initdata"] # Absent
  /\ IF fs["initdata"] \in Initdata
     THEN pc' = "files" /\ parsed' = fs["initdata"] /\ todo' = Data(fs["initdata"])
     ELSE pc' = "failed" /\ UNCHANGED <<parsed, todo>>
  /\ UNCHANGED <<source, config, fs, run, clock, attempts, written>>

extractInitdata ==
  /\ pc = "files"
  /\ \E p \in todo :
       /\ todo' = todo \ {p}
       /\ IF isAllowed(p, initdataFiles)
          THEN Written(p, parsed, UNCHANGED pc)
          ELSE UNCHANGED <<fs, pc>>
  /\ UNCHANGED <<source, config, run, clock, attempts, written, parsed>>

\* Faulty variant of writeDigest: the digest is written before the files.
writeDigestFirst ==
  /\ pc = "files" /\ fs["digest"] # parsed
  /\ Written("digest", parsed, pc' = IF todo = {} THEN "done" ELSE "files")
  /\ UNCHANGED <<source, config, run, clock, attempts, written, todo, parsed>>

\* The digest is written last.
writeDigest ==
  /\ pc = "files" /\ todo = {}
  /\ Written("digest", parsed, pc' = "done")
  /\ UNCHANGED <<source, config, run, clock, attempts, written, todo, parsed>>

\* process-user-data.path starts the failed unit again while the file exists.
Rerun ==
  /\ source = "file" /\ pc \in {"failed", "unfetched"} /\ run < MaxRuns
  /\ pc' = "start" /\ run' = run + 1 /\ clock' = 0 /\ attempts' = 0
  /\ written' = 0 /\ todo' = {} /\ parsed' = Absent
  /\ UNCHANGED <<source, config, fs>>

UserNext ==
  \/ newProvider \/ Attempt \/ TimeOut \/ processCloudConfig
  \/ processCloudConfigEnd \/ generateDummyInitdata \/ Parse
  \/ extractInitdata \/ writeDigest \/ Rerun

----------------------------------------------------------------------------
\* Every variable keeps its type, and no more attempts are made than allowed.
UserTypeOK ==
  /\ source \in Sources /\ config \in Configs
  /\ fs \in [Paths -> Contents]
  /\ pc \in {"start", "retrieve", "unfetched", "write", "extract", "files", "done", "failed"}
  /\ run \in 1..MaxRuns /\ clock \in Nat /\ attempts \in 0..MaxAttempts
  /\ written \in 0..Len(config) /\ todo \subseteq Paths
  /\ parsed \in Initdata \cup {Absent}

\* A complete digest on the disk vouches for what is there: it is that of the
\* initdata, and every allowed file of that initdata has been written with its
\* content, whatever failed before and however often the program ran.  The policy
\* comes from the initdata that is measured or not at all, and a file outside the
\* two lists is never written, by any part of the user data.
FilesVouched ==
  /\ fs["digest"] \in Initdata
       => /\ fs["initdata"] = fs["digest"]
          /\ \A p \in Data(fs["digest"]) \cap initdataFiles : fs[p] = fs["digest"]
  /\ fs["policy"] \in Initdata \cup {Absent, Cut} /\ fs["other"] = Absent
=============================================================================
