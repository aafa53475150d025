-------------------------- MODULE KernelModulesProofs --------------------------
(***************************************************************************)
(* Proofs about the RAM disk of Sbull, for any number of processes, any    *)
(* capacity and any values; and about the loading and unloading of the     *)
(* modules of Load, whatever step fails and however much of it was done.   *)
(***************************************************************************)
EXTENDS KernelModules, TLAPS, FiniteSetTheorems

Held(S) == [r \in Resources |-> IF r \in S THEN 1 ELSE 0]

(* The loader is at l, has still to do t, and the module holds S.          *)
Stage(l, t, S) == lpc = l /\ todo = t /\ held = Held(S)

AddsBio ==
  \/ Stage("out", <<"blkdev", "dev", "data", "disk", "added">>, {})
  \/ Stage("add", <<"dev", "data", "disk", "added">>, {"blkdev"})
  \/ Stage("add", <<"data", "disk", "added">>, {"blkdev", "dev"})
  \/ Stage("add", <<"disk", "added">>, {"blkdev", "dev", "data"})
  \/ Stage("add", <<"added">>, {"blkdev", "dev", "data", "disk"})

ReleasesBio ==
  \/ Stage("release", <<"added", "disk", "data", "dev", "blkdev">>,
           {"blkdev", "dev", "data", "disk", "added"})
  \/ Stage("release", <<"disk", "data", "dev", "blkdev">>, {"blkdev", "dev", "data", "disk"})
  \/ Stage("release", <<"data", "dev", "blkdev">>, {"blkdev", "dev", "data"})
  \/ Stage("release", <<"dev", "blkdev">>, {"blkdev", "dev"})
  \/ Stage("release", <<"blkdev">>, {"blkdev"})

AddsRequest ==
  \/ Stage("out", <<"blkdev", "dev", "data", "tag_set", "disk", "added">>, {})
  \/ Stage("add", <<"dev", "data", "tag_set", "disk", "added">>, {"blkdev"})
  \/ Stage("add", <<"data", "tag_set", "disk", "added">>, {"blkdev", "dev"})
  \/ Stage("add", <<"tag_set", "disk", "added">>, {"blkdev", "dev", "data"})
  \/ Stage("add", <<"disk", "added">>, {"blkdev", "dev", "data", "tag_set"})
  \/ Stage("add", <<"added">>, {"blkdev", "dev", "data", "tag_set", "disk"})

ReleasesRequest ==
  \/ Stage("release", <<"added", "disk", "tag_set", "data", "dev", "blkdev">>,
           {"blkdev", "dev", "data", "tag_set", "disk", "added"})
  \/ Stage("release", <<"disk", "tag_set", "data", "dev", "blkdev">>,
           {"blkdev", "dev", "data", "tag_set", "disk"})
  \/ Stage("release", <<"tag_set", "data", "dev", "blkdev">>, {"blkdev", "dev", "data", "tag_set"})
  \/ Stage("release", <<"data", "dev", "blkdev">>, {"blkdev", "dev", "data"})
  \/ Stage("release", <<"dev", "blkdev">>, {"blkdev", "dev"})
  \/ Stage("release", <<"blkdev">>, {"blkdev"})

LiveBio     == Stage("live", <<>>, {"blkdev", "dev", "data", "disk", "added"})
LiveRequest == Stage("live", <<>>, {"blkdev", "dev", "data", "tag_set", "disk", "added"})

(* Every stage of loading and unloading, with what is held then.           *)
Loader ==
  \/ build = "bio" /\ (AddsBio \/ LiveBio \/ ReleasesBio)
  \/ build = "request" /\ (AddsRequest \/ LiveRequest \/ ReleasesRequest)

(* A step of the loading succeeds.                                         *)
LEMMA TakeOne ==
  ASSUME NEW CONSTANT S, NEW CONSTANT r \in Resources, r \notin S,
         sbull_add_device, held = Held(S), Head(todo) = r
  PROVE  held' = Held(S \cup {r})
<1>1. held' = [held EXCEPT ![r] = @ + 1]
  BY DEF sbull_add_device
<1>2. held' = [q \in Resources |-> IF q \in S \cup {r} THEN 1 ELSE 0]
  BY <1>1 DEF Held
<1> QED BY <1>2 DEF Held

(* A resource is released.                                                 *)
LEMMA DropOne ==
  ASSUME NEW CONSTANT S, NEW CONSTANT r \in Resources, r \in S,
         release_one, held = Held(S), Head(todo) = r
  PROVE  held' = Held(S \ {r})
<1>1. held' = [held EXCEPT ![r] = @ - 1]
  BY DEF release_one
<1>2. held' = [q \in Resources |-> IF q \in S \ {r} THEN 1 ELSE 0]
  BY <1>1 DEF Held
<1> QED BY <1>2 DEF Held

(* The loading goes through the stages, in either build.                   *)
LEMMA AddKeeps == ASSUME Loader, sbull_add_device PROVE Loader'
<1>0. /\ build' = build /\ lpc \in {"out", "add"} /\ todo' = Tail(todo)
      /\ Tail(todo) # <<>> => lpc' = "add"
      /\ Tail(todo) = <<>> => lpc' = "live"
  BY DEF sbull_add_device
<1>1. CASE build = "bio"
  <2>1. AddsBio
    BY <1>0, <1>1 DEF Loader, LiveBio, ReleasesBio, Stage
  <2>2. ASSUME todo = <<"blkdev", "dev", "data", "disk", "added">>, held = Held({})
        PROVE  Stage("add", <<"dev", "data", "disk", "added">>, {"blkdev"})'
    <3>1. Head(todo) = "blkdev" /\ Tail(todo) = <<"dev", "data", "disk", "added">> /\ <<"dev", "data", "disk", "added">> # <<>>
      BY <2>2
    <3>2. "blkdev" \in Resources /\ "blkdev" \notin {} /\ {} \cup {"blkdev"} = {"blkdev"}
      BY DEF Resources
    <3>3. held' = Held({"blkdev"})
      BY <2>2, <3>1, <3>2, TakeOne
    <3> QED BY <1>0, <3>1, <3>3 DEF Stage
  <2>3. ASSUME todo = <<"dev", "data", "disk", "added">>, held = Held({"blkdev"})
        PROVE  Stage("add", <<"data", "disk", "added">>, {"blkdev", "dev"})'
    <3>1. Head(todo) = "dev" /\ Tail(todo) = <<"data", "disk", "added">> /\ <<"data", "disk", "added">> # <<>>
      BY <2>3
    <3>2. "dev" \in Resources /\ "dev" \notin {"blkdev"} /\ {"blkdev"} \cup {"dev"} = {"blkdev", "dev"}
      BY DEF Resources
    <3>3. held' = Held({"blkdev", "dev"})
      BY <2>3, <3>1, <3>2, TakeOne
    <3> QED BY <1>0, <3>1, <3>3 DEF Stage
  <2>4. ASSUME todo = <<"data", "disk", "added">>, held = Held({"blkdev", "dev"})
        PROVE  Stage("add", <<"disk", "added">>, {"blkdev", "dev", "data"})'
    <3>1. Head(todo) = "data" /\ Tail(todo) = <<"disk", "added">> /\ <<"disk", "added">> # <<>>
      BY <2>4
    <3>2. "data" \in Resources /\ "data" \notin {"blkdev", "dev"} /\ {"blkdev", "dev"} \cup {"data"} = {"blkdev", "dev", "data"}
      BY DEF Resources
    <3>3. held' = Held({"blkdev", "dev", "data"})
      BY <2>4, <3>1, <3>2, TakeOne
    <3> QED BY <1>0, <3>1, <3>3 DEF Stage
  <2>5. ASSUME todo = <<"disk", "added">>, held = Held({"blkdev", "dev", "data"})
        PROVE  Stage("add", <<"added">>, {"blkdev", "dev", "data", "disk"})'
    <3>1. Head(todo) = "disk" /\ Tail(todo) = <<"added">> /\ <<"added">> # <<>>
      BY <2>5
    <3>2. "disk" \in Resources /\ "disk" \notin {"blkdev", "dev", "data"} /\ {"blkdev", "dev", "data"} \cup {"disk"} = {"blkdev", "dev", "data", "disk"}
      BY DEF Resources
    <3>3. held' = Held({"blkdev", "dev", "data", "disk"})
      BY <2>5, <3>1, <3>2, TakeOne
    <3> QED BY <1>0, <3>1, <3>3 DEF Stage
  <2>6. ASSUME todo = <<"added">>, held = Held({"blkdev", "dev", "data", "disk"})
        PROVE  Stage("live", <<>>, {"blkdev", "dev", "data", "disk", "added"})'
    <3>1. Head(todo) = "added" /\ Tail(todo) = <<>> /\ <<>> = <<>>
      BY <2>6
    <3>2. "added" \in Resources /\ "added" \notin {"blkdev", "dev", "data", "disk"} /\ {"blkdev", "dev", "data", "disk"} \cup {"added"} = {"blkdev", "dev", "data", "disk", "added"}
      BY DEF Resources
    <3>3. held' = Held({"blkdev", "dev", "data", "disk", "added"})
      BY <2>6, <3>1, <3>2, TakeOne
    <3> QED BY <1>0, <3>1, <3>3 DEF Stage
  <2> QED BY <1>0, <1>1, <2>1, <2>2, <2>3, <2>4, <2>5, <2>6 DEF Loader, AddsBio, LiveBio, Stage
<1>2. CASE build = "request"
  <2>1. AddsRequest
    BY <1>0, <1>2 DEF Loader, LiveRequest, ReleasesRequest, Stage
  <2>2. ASSUME todo = <<"blkdev", "dev", "data", "tag_set", "disk", "added">>, held = Held({})
        PROVE  Stage("add", <<"dev", "data", "tag_set", "disk", "added">>, {"blkdev"})'
    <3>1. Head(todo) = "blkdev" /\ Tail(todo) = <<"dev", "data", "tag_set", "disk", "added">> /\ <<"dev", "data", "tag_set", "disk", "added">> # <<>>
      BY <2>2
    <3>2. "blkdev" \in Resources /\ "blkdev" \notin {} /\ {} \cup {"blkdev"} = {"blkdev"}
      BY DEF Resources
    <3>3. held' = Held({"blkdev"})
      BY <2>2, <3>1, <3>2, TakeOne
    <3> QED BY <1>0, <3>1, <3>3 DEF Stage
  <2>3. ASSUME todo = <<"dev", "data", "tag_set", "disk", "added">>, held = Held({"blkdev"})
        PROVE  Stage("add", <<"data", "tag_set", "disk", "added">>, {"blkdev", "dev"})'
    <3>1. Head(todo) = "dev" /\ Tail(todo) = <<"data", "tag_set", "disk", "added">> /\ <<"data", "tag_set", "disk", "added">> # <<>>
      BY <2>3
    <3>2. "dev" \in Resources /\ "dev" \notin {"blkdev"} /\ {"blkdev"} \cup {"dev"} = {"blkdev", "dev"}
      BY DEF Resources
    <3>3. held' = Held({"blkdev", "dev"})
      BY <2>3, <3>1, <3>2, TakeOne
    <3> QED BY <1>0, <3>1, <3>3 DEF Stage
  <2>4. ASSUME todo = <<"data", "tag_set", "disk", "added">>, held = Held({"blkdev", "dev"})
        PROVE  Stage("add", <<"tag_set", "disk", "added">>, {"blkdev", "dev", "data"})'
    <3>1. Head(todo) = "data" /\ Tail(todo) = <<"tag_set", "disk", "added">> /\ <<"tag_set", "disk", "added">> # <<>>
      BY <2>4
    <3>2. "data" \in Resources /\ "data" \notin {"blkdev", "dev"} /\ {"blkdev", "dev"} \cup {"data"} = {"blkdev", "dev", "data"}
      BY DEF Resources
    <3>3. held' = Held({"blkdev", "dev", "data"})
      BY <2>4, <3>1, <3>2, TakeOne
    <3> QED BY <1>0, <3>1, <3>3 DEF Stage
  <2>5. ASSUME todo = <<"tag_set", "disk", "added">>, held = Held({"blkdev", "dev", "data"})
        PROVE  Stage("add", <<"disk", "added">>, {"blkdev", "dev", "data", "tag_set"})'
    <3>1. Head(todo) = "tag_set" /\ Tail(todo) = <<"disk", "added">> /\ <<"disk", "added">> # <<>>
      BY <2>5
    <3>2. "tag_set" \in Resources /\ "tag_set" \notin {"blkdev", "dev", "data"} /\ {"blkdev", "dev", "data"} \cup {"tag_set"} = {"blkdev", "dev", "data", "tag_set"}
      BY DEF Resources
    <3>3. held' = Held({"blkdev", "dev", "data", "tag_set"})
      BY <2>5, <3>1, <3>2, TakeOne
    <3> QED BY <1>0, <3>1, <3>3 DEF Stage
  <2>6. ASSUME todo = <<"disk", "added">>, held = Held({"blkdev", "dev", "data", "tag_set"})
        PROVE  Stage("add", <<"added">>, {"blkdev", "dev", "data", "tag_set", "disk"})'
    <3>1. Head(todo) = "disk" /\ Tail(todo) = <<"added">> /\ <<"added">> # <<>>
      BY <2>6
    <3>2. "disk" \in Resources /\ "disk" \notin {"blkdev", "dev", "data", "tag_set"} /\ {"blkdev", "dev", "data", "tag_set"} \cup {"disk"} = {"blkdev", "dev", "data", "tag_set", "disk"}
      BY DEF Resources
    <3>3. held' = Held({"blkdev", "dev", "data", "tag_set", "disk"})
      BY <2>6, <3>1, <3>2, TakeOne
    <3> QED BY <1>0, <3>1, <3>3 DEF Stage
  <2>7. ASSUME todo = <<"added">>, held = Held({"blkdev", "dev", "data", "tag_set", "disk"})
        PROVE  Stage("live", <<>>, {"blkdev", "dev", "data", "tag_set", "disk", "added"})'
    <3>1. Head(todo) = "added" /\ Tail(todo) = <<>> /\ <<>> = <<>>
      BY <2>7
    <3>2. "added" \in Resources /\ "added" \notin {"blkdev", "dev", "data", "tag_set", "disk"} /\ {"blkdev", "dev", "data", "tag_set", "disk"} \cup {"added"} = {"blkdev", "dev", "data", "tag_set", "disk", "added"}
      BY DEF Resources
    <3>3. held' = Held({"blkdev", "dev", "data", "tag_set", "disk", "added"})
      BY <2>7, <3>1, <3>2, TakeOne
    <3> QED BY <1>0, <3>1, <3>3 DEF Stage
  <2> QED BY <1>0, <1>2, <2>1, <2>2, <2>3, <2>4, <2>5, <2>6, <2>7 DEF Loader, AddsRequest, LiveRequest, Stage
<1> QED BY <1>1, <1>2 DEF Loader

(* So does the unwinding or the removal.                                   *)
LEMMA ReleaseKeeps == ASSUME Loader, release_one PROVE Loader'
<1>0. /\ build' = build /\ lpc = "release"
      /\ Tail(todo) # <<>> => lpc' = "release" /\ todo' = Tail(todo)
      /\ Tail(todo) = <<>> => lpc' = "out" /\ todo' = Steps
  BY DEF release_one
<1>1. CASE build = "bio"
  <2>1. ReleasesBio
    BY <1>0, <1>1 DEF Loader, LiveBio, AddsBio, Stage
  <2>2. ASSUME todo = <<"added", "disk", "data", "dev", "blkdev">>, held = Held({"blkdev", "dev", "data", "disk", "added"})
        PROVE  Stage("release", <<"disk", "data", "dev", "blkdev">>, {"blkdev", "dev", "data", "disk"})'
    <3>1. Head(todo) = "added" /\ Tail(todo) = <<"disk", "data", "dev", "blkdev">> /\ <<"disk", "data", "dev", "blkdev">> # <<>>
      BY <2>2
    <3>2. "added" \in Resources /\ "added" \in {"blkdev", "dev", "data", "disk", "added"} /\ {"blkdev", "dev", "data", "disk", "added"} \ {"added"} = {"blkdev", "dev", "data", "disk"}
      BY DEF Resources
    <3>3. held' = Held({"blkdev", "dev", "data", "disk"})
      BY <2>2, <3>1, <3>2, DropOne
    <3> QED BY <1>0, <3>1, <3>3 DEF Stage
  <2>3. ASSUME todo = <<"disk", "data", "dev", "blkdev">>, held = Held({"blkdev", "dev", "data", "disk"})
        PROVE  Stage("release", <<"data", "dev", "blkdev">>, {"blkdev", "dev", "data"})'
    <3>1. Head(todo) = "disk" /\ Tail(todo) = <<"data", "dev", "blkdev">> /\ <<"data", "dev", "blkdev">> # <<>>
      BY <2>3
    <3>2. "disk" \in Resources /\ "disk" \in {"blkdev", "dev", "data", "disk"} /\ {"blkdev", "dev", "data", "disk"} \ {"disk"} = {"blkdev", "dev", "data"}
      BY DEF Resources
    <3>3. held' = Held({"blkdev", "dev", "data"})
      BY <2>3, <3>1, <3>2, DropOne
    <3> QED BY <1>0, <3>1, <3>3 DEF Stage
  <2>4. ASSUME todo = <<"data", "dev", "blkdev">>, held = Held({"blkdev", "dev", "data"})
        PROVE  Stage("release", <<"dev", "blkdev">>, {"blkdev", "dev"})'
    <3>1. Head(todo) = "data" /\ Tail(todo) = <<"dev", "blkdev">> /\ <<"dev", "blkdev">> # <<>>
      BY <2>4
    <3>2. "data" \in Resources /\ "data" \in {"blkdev", "dev", "data"} /\ {"blkdev", "dev", "data"} \ {"data"} = {"blkdev", "dev"}
      BY DEF Resources
    <3>3. held' = Held({"blkdev", "dev"})
      BY <2>4, <3>1, <3>2, DropOne
    <3> QED BY <1>0, <3>1, <3>3 DEF Stage
  <2>5. ASSUME todo = <<"dev", "blkdev">>, held = Held({"blkdev", "dev"})
        PROVE  Stage("release", <<"blkdev">>, {"blkdev"})'
    <3>1. Head(todo) = "dev" /\ Tail(todo) = <<"blkdev">> /\ <<"blkdev">> # <<>>
      BY <2>5
    <3>2. "dev" \in Resources /\ "dev" \in {"blkdev", "dev"} /\ {"blkdev", "dev"} \ {"dev"} = {"blkdev"}
      BY DEF Resources
    <3>3. held' = Held({"blkdev"})
      BY <2>5, <3>1, <3>2, DropOne
    <3> QED BY <1>0, <3>1, <3>3 DEF Stage
  <2>6. ASSUME todo = <<"blkdev">>, held = Held({"blkdev"})
        PROVE  Stage("out", <<"blkdev", "dev", "data", "disk", "added">>, {})'
    <3>1. Head(todo) = "blkdev" /\ Tail(todo) = <<>> /\ <<>> = <<>>
      BY <2>6
    <3>2. "blkdev" \in Resources /\ "blkdev" \in {"blkdev"} /\ {"blkdev"} \ {"blkdev"} = {}
      BY DEF Resources
    <3>3. held' = Held({})
      BY <2>6, <3>1, <3>2, DropOne
    <3> QED BY <1>0, <1>1, <3>1, <3>3 DEF Stage, Steps
  <2> QED BY <1>0, <1>1, <2>1, <2>2, <2>3, <2>4, <2>5, <2>6 DEF Loader, AddsBio, ReleasesBio, Stage
<1>2. CASE build = "request"
  <2>1. ReleasesRequest
    BY <1>0, <1>2 DEF Loader, LiveRequest, AddsRequest, Stage
  <2>2. ASSUME todo = <<"added", "disk", "tag_set", "data", "dev", "blkdev">>, held = Held({"blkdev", "dev", "data", "tag_set", "disk", "added"})
        PROVE  Stage("release", <<"disk", "tag_set", "data", "dev", "blkdev">>, {"blkdev", "dev", "data", "tag_set", "disk"})'
    <3>1. Head(todo) = "added" /\ Tail(todo) = <<"disk", "tag_set", "data", "dev", "blkdev">> /\ <<"disk", "tag_set", "data", "dev", "blkdev">> # <<>>
      BY <2>2
    <3>2. "added" \in Resources /\ "added" \in {"blkdev", "dev", "data", "tag_set", "disk", "added"} /\ {"blkdev", "dev", "data", "tag_set", "disk", "added"} \ {"added"} = {"blkdev", "dev", "data", "tag_set", "disk"}
      BY DEF Resources
    <3>3. held' = Held({"blkdev", "dev", "data", "tag_set", "disk"})
      BY <2>2, <3>1, <3>2, DropOne
    <3> QED BY <1>0, <3>1, <3>3 DEF Stage
  <2>3. ASSUME todo = <<"disk", "tag_set", "data", "dev", "blkdev">>, held = Held({"blkdev", "dev", "data", "tag_set", "disk"})
        PROVE  Stage("release", <<"tag_set", "data", "dev", "blkdev">>, {"blkdev", "dev", "data", "tag_set"})'
    <3>1. Head(todo) = "disk" /\ Tail(todo) = <<"tag_set", "data", "dev", "blkdev">> /\ <<"tag_set", "data", "dev", "blkdev">> # <<>>
      BY <2>3
    <3>2. "disk" \in Resources /\ "disk" \in {"blkdev", "dev", "data", "tag_set", "disk"} /\ {"blkdev", "dev", "data", "tag_set", "disk"} \ {"disk"} = {"blkdev", "dev", "data", "tag_set"}
      BY DEF Resources
    <3>3. held' = Held({"blkdev", "dev", "data", "tag_set"})
      BY <2>3, <3>1, <3>2, DropOne
    <3> QED BY <1>0, <3>1, <3>3 DEF Stage
  <2>4. ASSUME todo = <<"tag_set", "data", "dev", "blkdev">>, held = Held({"blkdev", "dev", "data", "tag_set"})
        PROVE  Stage("release", <<"data", "dev", "blkdev">>, {"blkdev", "dev", "data"})'
    <3>1. Head(todo) = "tag_set" /\ Tail(todo) = <<"data", "dev", "blkdev">> /\ <<"data", "dev", "blkdev">> # <<>>
      BY <2>4
    <3>2. "tag_set" \in Resources /\ "tag_set" \in {"blkdev", "dev", "data", "tag_set"} /\ {"blkdev", "dev", "data", "tag_set"} \ {"tag_set"} = {"blkdev", "dev", "data"}
      BY DEF Resources
    <3>3. held' = Held({"blkdev", "dev", "data"})
      BY <2>4, <3>1, <3>2, DropOne
    <3> QED BY <1>0, <3>1, <3>3 DEF Stage
  <2>5. ASSUME todo = <<"data", "dev", "blkdev">>, held = Held({"blkdev", "dev", "data"})
        PROVE  Stage("release", <<"dev", "blkdev">>, {"blkdev", "dev"})'
    <3>1. Head(todo) = "data" /\ Tail(todo) = <<"dev", "blkdev">> /\ <<"dev", "blkdev">> # <<>>
      BY <2>5
    <3>2. "data" \in Resources /\ "data" \in {"blkdev", "dev", "data"} /\ {"blkdev", "dev", "data"} \ {"data"} = {"blkdev", "dev"}
      BY DEF Resources
    <3>3. held' = Held({"blkdev", "dev"})
      BY <2>5, <3>1, <3>2, DropOne
    <3> QED BY <1>0, <3>1, <3>3 DEF Stage
  <2>6. ASSUME todo = <<"dev", "blkdev">>, held = Held({"blkdev", "dev"})
        PROVE  Stage("release", <<"blkdev">>, {"blkdev"})'
    <3>1. Head(todo) = "dev" /\ Tail(todo) = <<"blkdev">> /\ <<"blkdev">> # <<>>
      BY <2>6
    <3>2. "dev" \in Resources /\ "dev" \in {"blkdev", "dev"} /\ {"blkdev", "dev"} \ {"dev"} = {"blkdev"}
      BY DEF Resources
    <3>3. held' = Held({"blkdev"})
      BY <2>6, <3>1, <3>2, DropOne
    <3> QED BY <1>0, <3>1, <3>3 DEF Stage
  <2>7. ASSUME todo = <<"blkdev">>, held = Held({"blkdev"})
        PROVE  Stage("out", <<"blkdev", "dev", "data", "tag_set", "disk", "added">>, {})'
    <3>1. Head(todo) = "blkdev" /\ Tail(todo) = <<>> /\ <<>> = <<>>
      BY <2>7
    <3>2. "blkdev" \in Resources /\ "blkdev" \in {"blkdev"} /\ {"blkdev"} \ {"blkdev"} = {}
      BY DEF Resources
    <3>3. held' = Held({})
      BY <2>7, <3>1, <3>2, DropOne
    <3> QED BY <1>0, <1>2, <3>1, <3>3 DEF Stage, Steps
  <2> QED BY <1>0, <1>2, <2>1, <2>2, <2>3, <2>4, <2>5, <2>6, <2>7 DEF Loader, AddsRequest, ReleasesRequest, Stage
<1> QED BY <1>1, <1>2 DEF Loader

(* A failed step is followed by the release of just what is held.          *)
LEMMA FailKeeps == ASSUME Loader, sbull_add_fails PROVE Loader'
<1>0. /\ build' = build /\ held' = held /\ lpc = "add" /\ lpc' = "release"
      /\ todo' = FailLabel(Head(todo))
  BY DEF sbull_add_fails
<1>1. CASE build = "bio"
  <2>1. AddsBio /\ lpc # "out"
    BY <1>0, <1>1 DEF Loader, LiveBio, ReleasesBio, Stage
  <2>2. CASE Stage("add", <<"dev", "data", "disk", "added">>, {"blkdev"})
    <3>1. Head(todo) = "dev"
      BY <2>2 DEF Stage
    <3> QED BY <1>0, <1>1, <2>2, <3>1 DEF Loader, ReleasesBio, Stage, FailLabel
  <2>3. CASE Stage("add", <<"data", "disk", "added">>, {"blkdev", "dev"})
    <3>1. Head(todo) = "data"
      BY <2>3 DEF Stage
    <3> QED BY <1>0, <1>1, <2>3, <3>1 DEF Loader, ReleasesBio, Stage, FailLabel
  <2>4. CASE Stage("add", <<"disk", "added">>, {"blkdev", "dev", "data"})
    <3>1. Head(todo) = "disk"
      BY <2>4 DEF Stage
    <3> QED BY <1>0, <1>1, <2>4, <3>1 DEF Loader, ReleasesBio, Stage, FailLabel
  <2>5. CASE Stage("add", <<"added">>, {"blkdev", "dev", "data", "disk"})
    <3>1. Head(todo) = "added"
      BY <2>5 DEF Stage
    <3> QED BY <1>0, <1>1, <2>5, <3>1 DEF Loader, ReleasesBio, Stage, FailLabel
  <2> QED BY <2>1, <2>2, <2>3, <2>4, <2>5 DEF AddsBio, Stage
<1>2. CASE build = "request"
  <2>1. AddsRequest /\ lpc # "out"
    BY <1>0, <1>2 DEF Loader, LiveRequest, ReleasesRequest, Stage
  <2>2. CASE Stage("add", <<"dev", "data", "tag_set", "disk", "added">>, {"blkdev"})
    <3>1. Head(todo) = "dev"
      BY <2>2 DEF Stage
    <3> QED BY <1>0, <1>2, <2>2, <3>1 DEF Loader, ReleasesRequest, Stage, FailLabel
  <2>3. CASE Stage("add", <<"data", "tag_set", "disk", "added">>, {"blkdev", "dev"})
    <3>1. Head(todo) = "data"
      BY <2>3 DEF Stage
    <3> QED BY <1>0, <1>2, <2>3, <3>1 DEF Loader, ReleasesRequest, Stage, FailLabel
  <2>4. CASE Stage("add", <<"tag_set", "disk", "added">>, {"blkdev", "dev", "data"})
    <3>1. Head(todo) = "tag_set"
      BY <2>4 DEF Stage
    <3> QED BY <1>0, <1>2, <2>4, <3>1 DEF Loader, ReleasesRequest, Stage, FailLabel
  <2>5. CASE Stage("add", <<"disk", "added">>, {"blkdev", "dev", "data", "tag_set"})
    <3>1. Head(todo) = "disk"
      BY <2>5 DEF Stage
    <3> QED BY <1>0, <1>2, <2>5, <3>1 DEF Loader, ReleasesRequest, Stage, FailLabel
  <2>6. CASE Stage("add", <<"added">>, {"blkdev", "dev", "data", "tag_set", "disk"})
    <3>1. Head(todo) = "added"
      BY <2>6 DEF Stage
    <3> QED BY <1>0, <1>2, <2>6, <3>1 DEF Loader, ReleasesRequest, Stage, FailLabel
  <2> QED BY <2>1, <2>2, <2>3, <2>4, <2>5, <2>6 DEF AddsRequest, Stage
<1> QED BY <1>1, <1>2 DEF Loader

(* The removal begins with everything held.                                *)
LEMMA ExitKeeps == ASSUME Loader, sbull_exit PROVE Loader'
<1>0. /\ build' = build /\ held' = held /\ lpc = "live" /\ lpc' = "release"
      /\ todo' = RemoveOrder
  BY DEF sbull_exit
<1>1. CASE build = "bio"
  <2>1. LiveBio
    BY <1>0, <1>1 DEF Loader, AddsBio, ReleasesBio, Stage
  <2> QED BY <1>0, <1>1, <2>1 DEF Loader, LiveBio, ReleasesBio, Stage, RemoveOrder
<1>2. CASE build = "request"
  <2>1. LiveRequest
    BY <1>0, <1>2 DEF Loader, AddsRequest, ReleasesRequest, Stage
  <2> QED BY <1>0, <1>2, <2>1 DEF Loader, LiveRequest, ReleasesRequest, Stage, RemoveOrder
<1> QED BY <1>1, <1>2 DEF Loader

(* What a module that is out holds, and in what order it acquires.         *)
LEMMA LoaderOrder == Loader => NothingLeaked /\ ReleasedInOrder
<1> SUFFICES ASSUME Loader PROVE NothingLeaked /\ ReleasedInOrder
  OBVIOUS
<1>1. CASE build = "bio"
  BY <1>1 DEF Loader, AddsBio, LiveBio, ReleasesBio, Stage, Held, Resources, NothingLeaked,
     ReleasedInOrder
<1>2. CASE build = "request"
  BY <1>2 DEF Loader, AddsRequest, LiveRequest, ReleasesRequest, Stage, Held, Resources,
     NothingLeaked, ReleasedInOrder
<1> QED BY <1>1, <1>2 DEF Loader

(* A disk that is live has everything.                                     *)
LEMMA LiveHolds == Loader /\ lpc = "live" => \A r \in {"data", "dev", "disk"} : held[r] > 0
BY DEF Loader, AddsBio, LiveBio, ReleasesBio, AddsRequest, LiveRequest, ReleasesRequest, Stage,
   Held, Resources
-----------------------------------------------------------------------------
(* Only a live disk is open, the counter counts the openings, and only who *)
(* has it open has a request.                                              *)
Users ==
  /\ opened \subseteq Procs
  /\ open_counter = Cardinality(opened)
  /\ opened # {} => lpc = "live"
  /\ \A p \in Procs : p \notin opened => req[p] = None

IsRequest(r) ==
  /\ r = [op |-> r.op, pos |-> r.pos, n |-> r.n, val |-> r.val, cur |-> r.cur, left |-> r.left,
          got |-> r.got, err |-> r.err, clash |-> r.clash]
  /\ r.got = [s \in Span(r) |-> r.got[s]]

(* The request lies on the disk, and is at cur.                            *)
Bounds(r) ==
  /\ r.op \in {"read", "write"}
  /\ r.pos \in Nat /\ r.n \in Nat \ {0} /\ r.pos + r.n <= capacity
  /\ r.cur \in Int /\ r.pos <= r.cur /\ r.cur <= r.pos + r.n
  /\ r.left = r.pos + r.n - r.cur
  /\ ~r.err

(* The sectors before cur are moved, but for those in clash.               *)
Moved(r, d) ==
  \A s \in Int : r.pos <= s /\ s < r.cur /\ s \notin r.clash =>
    IF r.op = "write" THEN d[s] = r.val ELSE r.got[s] = d[s]

(* The clash of a request holds all the sectors that it shares with a      *)
(* write in flight.                                                        *)
Clashes ==
  \A p, q \in Procs : p # q /\ req[p] # None /\ Writing(q) =>
    \A s \in Int : s \in Span(req[p]) /\ s \in Span(req[q]) => s \in req[p].clash

Requests ==
  /\ data = [s \in Sectors |-> data[s]]
  /\ req = [p \in Procs |-> req[p]]
  /\ \A p \in Procs : req[p] = None \/ (IsRequest(req[p]) /\ Bounds(req[p]) /\ Moved(req[p], data))
  /\ Clashes

DiskInv == Loader /\ Users /\ Requests

(* A process has a request in flight, or none.                             *)
LEMMA Flying ==
  ASSUME Requests, NEW p \in Procs
  PROVE  /\ p \in InFlight <=> req[p] # None
         /\ Writing(p) <=> req[p] # None /\ req[p].op = "write"
         /\ req[p] # None => IsRequest(req[p]) /\ Bounds(req[p]) /\ Moved(req[p], data)
<1>1. None.op = "none"
  BY DEF None
<1>2. req[p] # None => req[p].op # "none"
  BY DEF Requests, Bounds
<1>3. p \in InFlight <=> req[p].op # "none"
  BY DEF InFlight
<1>4. p \in InFlight <=> req[p] # None
  BY <1>1, <1>2, <1>3
<1> QED BY <1>4 DEF Writing, Requests

(* The requests do not notice what leaves data and req alone.              *)
LEMMA RequestsFrame == Requests /\ UNCHANGED <<data, req>> => Requests'
BY DEF Requests, Clashes, Writing, InFlight

(* Opening and closing.                                                    *)
LEMMA OpenKeeps ==
  ASSUME DiskInv, NEW p \in Procs, sbull_open(p) \/ sbull_release(p)
  PROVE  DiskInv'
<1> USE DEF DiskInv
<1>0. IsFiniteSet(opened)
  BY SbullAssumption, FS_Subset DEF Users
<1>1. UNCHANGED <<build, lpc, todo, held, data, req>>
  BY DEF sbull_open, sbull_release
<1>2. Loader'
  BY <1>1 DEF Loader, AddsBio, LiveBio, ReleasesBio, AddsRequest, LiveRequest, ReleasesRequest,
     Stage
<1>3. Requests'
  BY <1>1, RequestsFrame
<1>4. CASE sbull_open(p)
  <2>1. Cardinality(opened \cup {p}) = Cardinality(opened) + 1
    BY <1>0, <1>4, FS_AddElement DEF sbull_open
  <2> QED BY <1>1, <1>2, <1>3, <1>4, <2>1 DEF Users, sbull_open
<1>5. CASE sbull_release(p)
  <2>1. Cardinality(opened \ {p}) = Cardinality(opened) - 1
    BY <1>0, <1>5, FS_RemoveElement DEF sbull_release
  <2> QED BY <1>1, <1>2, <1>3, <1>5, <2>1 DEF Users, sbull_release
<1> QED BY <1>4, <1>5

(* The loader's steps: nobody uses the disk meanwhile.                     *)
LEMMA LoaderSteps ==
  ASSUME DiskInv, sbull_add_device \/ sbull_add_fails \/ sbull_exit \/ release_one
  PROVE  DiskInv'
<1> USE DEF DiskInv
<1>1. Loader'
  BY AddKeeps, FailKeeps, ExitKeeps, ReleaseKeeps
<1>2. opened = {} /\ opened' = {} /\ req' = req
  BY DEF sbull_add_device, sbull_add_fails, sbull_exit, release_one, Users
<1>3. open_counter = 0 /\ open_counter' = 0
  BY <1>2, FS_EmptySet DEF sbull_add_device, sbull_add_fails, sbull_exit, release_one, Users
<1>4. Users'
  BY <1>2, <1>3, FS_EmptySet DEF Users
<1>5. \A p \in Procs : req[p] = None
  BY <1>2 DEF Users
<1>6. data' = [s \in Sectors |-> data'[s]]
  <2>1. data' = data \/ data' = [s \in Sectors |-> Junk]
    BY DEF sbull_add_device, sbull_add_fails, sbull_exit, release_one
  <2> QED BY <2>1 DEF Requests
<1>7. Requests'
  BY <1>2, <1>5, <1>6 DEF Requests, Clashes
<1> QED BY <1>1, <1>4, <1>7

(* Steps that touch only the requests and the data.                        *)
LEMMA UseFrame ==
  ASSUME Loader, Users, UNCHANGED <<build, lpc, todo, held, open_counter, opened>>,
         \A p \in Procs : p \notin opened => req'[p] = None
  PROVE  Loader' /\ Users'
<1>1. Loader'
  BY DEF Loader, AddsBio, LiveBio, ReleasesBio, AddsRequest, LiveRequest, ReleasesRequest, Stage
<1> QED BY <1>1 DEF Users

(* Another clash is entered into a request.                                *)
LEMMA ClashGrows ==
  ASSUME NEW a, NEW b, NEW S, IsRequest(a), b = [a EXCEPT !.clash = S]
  PROVE  /\ b.op = a.op /\ b.pos = a.pos /\ b.n = a.n /\ b.val = a.val /\ b.cur = a.cur
         /\ b.left = a.left /\ b.got = a.got /\ b.err = a.err /\ b.clash = S
         /\ Span(b) = Span(a) /\ IsRequest(b)
<1>1. a = [op |-> a.op, pos |-> a.pos, n |-> a.n, val |-> a.val, cur |-> a.cur, left |-> a.left,
           got |-> a.got, err |-> a.err, clash |-> a.clash]
  BY DEF IsRequest
<1>2. /\ b.op = a.op /\ b.pos = a.pos /\ b.n = a.n /\ b.val = a.val /\ b.cur = a.cur
      /\ b.left = a.left /\ b.got = a.got /\ b.err = a.err /\ b.clash = S
  BY <1>1
<1>3. b = [op |-> b.op, pos |-> b.pos, n |-> b.n, val |-> b.val, cur |-> b.cur, left |-> b.left,
           got |-> b.got, err |-> b.err, clash |-> b.clash]
  BY <1>1, <1>2
<1>4. Span(b) = Span(a)
  BY <1>2, Zenon DEF Span
<1> QED BY <1>2, <1>3, <1>4 DEF IsRequest

(* A request is submitted: the overlaps are entered on both sides.         *)
LEMMA SubmitKeeps ==
  ASSUME DiskInv, NEW p \in Procs, NEW op \in {"read", "write"}, NEW pos \in 0 .. capacity,
         NEW n \in 1 .. capacity, NEW v \in Values, submit(p, op, pos, n, v)
  PROVE  DiskInv'
<1> USE DEF DiskInv
<1> DEFINE r == [op |-> op, pos |-> pos, n |-> n, val |-> v, cur |-> pos, left |-> n,
                 got |-> [s \in pos .. pos + n - 1 |-> "unread"], err |-> FALSE,
                 clash |-> {s \in pos .. pos + n - 1 :
                              \E q \in Procs : Writing(q) /\ s \in Span(req[q])}]
           grown(q) == [req[q] EXCEPT !.clash = @ \cup (Span(req[q]) \cap Span(r))]
<1>0. capacity \in Nat /\ pos \in Nat /\ n \in Nat \ {0}
  BY SbullAssumption
<1>1. /\ p \in opened /\ pos + n <= capacity
      /\ UNCHANGED <<build, lpc, todo, held, open_counter, opened, data>>
  BY DEF submit, set_capacity
<1>a. req' = [q \in Procs |-> IF q = p THEN r
                              ELSE IF q \in InFlight /\ op = "write" THEN grown(q) ELSE req[q]]
  BY DEF submit
<1>2. r.op = op /\ r.pos = pos /\ r.n = n /\ r.cur = pos /\ r.left = n /\ ~r.err
  OBVIOUS
<1>3. r.clash = {s \in pos .. pos + n - 1 : \E q \in Procs : Writing(q) /\ s \in Span(req[q])}
  OBVIOUS
<1>4. r.got = [s \in pos .. pos + n - 1 |-> "unread"] /\ r.val = v
  OBVIOUS
<1>5. r # None
  BY <1>2 DEF None
<1>6. r = [op |-> r.op, pos |-> r.pos, n |-> r.n, val |-> r.val, cur |-> r.cur, left |-> r.left,
           got |-> r.got, err |-> r.err, clash |-> r.clash]
  OBVIOUS
<1> HIDE DEF r
<1>7. Span(r) = pos .. pos + n - 1
  BY <1>2, Zenon DEF Span
<1>8. IsRequest(r)
  BY <1>4, <1>6, <1>7 DEF IsRequest
<1>9. Bounds(r) /\ Moved(r, data)
  BY <1>0, <1>1, <1>2 DEF Bounds, Moved
<1>10. ASSUME NEW q \in Procs, q # p
       PROVE  /\ req[q] = None => req'[q] = None
              /\ req[q] # None => IF op = "write" THEN req'[q] = grown(q) ELSE req'[q] = req[q]
  BY <1>a, <1>10, Flying
<1>11. ASSUME NEW q \in Procs, q # p, req[q] # None
       PROVE  /\ req'[q] # None /\ IsRequest(req'[q]) /\ Bounds(req'[q]) /\ Moved(req'[q], data)
              /\ Span(req'[q]) = Span(req[q]) /\ req'[q].op = req[q].op
              /\ req[q].clash \subseteq req'[q].clash
              /\ op = "write" => Span(req[q]) \cap Span(r) \subseteq req'[q].clash
  <2>0. IsRequest(req[q]) /\ Bounds(req[q]) /\ Moved(req[q], data)
    BY <1>11, Flying
  <2>1. CASE op = "write"
    <3>1. req'[q] = [req[q] EXCEPT !.clash = req[q].clash \cup (Span(req[q]) \cap Span(r))]
      BY <1>10, <1>11, <2>1
    <3>2. /\ req'[q].op = req[q].op /\ req'[q].pos = req[q].pos /\ req'[q].n = req[q].n
          /\ req'[q].val = req[q].val /\ req'[q].cur = req[q].cur /\ req'[q].left = req[q].left
          /\ req'[q].got = req[q].got /\ req'[q].err = req[q].err
          /\ req'[q].clash = req[q].clash \cup (Span(req[q]) \cap Span(r))
          /\ Span(req'[q]) = Span(req[q]) /\ IsRequest(req'[q])
      BY <2>0, <3>1, ClashGrows
    <3>4. Bounds(req'[q])
      BY <2>0, <3>2 DEF Bounds
    <3>6. Moved(req'[q], data)
      BY <2>0, <3>2 DEF Moved
    <3>7. req'[q] # None
      BY <3>4 DEF Bounds, None
    <3> QED BY <3>2, <3>4, <3>6, <3>7
  <2>2. CASE op = "read"
    BY <1>10, <1>11, <2>0, <2>2
  <2> QED BY <2>1, <2>2
<1>12. req'[p] = r
  BY <1>a
<1>13. req' = [q \in Procs |-> req'[q]]
  BY <1>a
<1>14. \A q \in Procs : req'[q] = None \/
                          (IsRequest(req'[q]) /\ Bounds(req'[q]) /\ Moved(req'[q], data))
  BY <1>8, <1>9, <1>10, <1>11, <1>12
<1>15. \A q \in Procs : Writing(q)' => req'[q] # None /\ req'[q].op = "write"
  BY DEF Writing, InFlight, None
<1>16. Clashes'
  <2> SUFFICES ASSUME NEW a \in Procs, NEW b \in Procs, a # b, req'[a] # None, Writing(b)',
                      NEW s \in Int, s \in Span(req'[a]), s \in Span(req'[b])
               PROVE  s \in req'[a].clash
    BY DEF Clashes
  <2>1. req'[b] # None /\ req'[b].op = "write"
    BY <1>15
  <2>2. CASE a # p /\ b # p
    <3>1. req[a] # None /\ req[b] # None
      BY <1>10, <2>1, <2>2
    <3>2. Writing(b)
      BY <1>11, <2>1, <2>2, <3>1, Flying
    <3>3. s \in Span(req[a]) /\ s \in Span(req[b])
      BY <1>11, <2>2, <3>1
    <3> QED BY <1>11, <2>2, <3>1, <3>2, <3>3 DEF Requests, Clashes
  <2>3. CASE b = p
    <3>1. op = "write" /\ req[a] # None /\ a # p
      BY <1>2, <1>10, <1>12, <2>1, <2>3
    <3> QED BY <1>11, <1>12, <2>3, <3>1
  <2>4. CASE a = p
    <3>1. b # p /\ req[b] # None
      BY <1>10, <2>1, <2>4
    <3>2. Writing(b) /\ s \in Span(req[b])
      BY <1>11, <2>1, <3>1, Flying
    <3>3. s \in Span(r)
      BY <1>12, <2>4
    <3> QED BY <1>3, <1>7, <1>12, <2>4, <3>2, <3>3
  <2> QED BY <2>2, <2>3, <2>4
<1>17. Requests'
  BY <1>1, <1>13, <1>14, <1>16 DEF Requests
<1>18. \A q \in Procs : q \notin opened => req'[q] = None
  BY <1>1, <1>10 DEF Users
<1> QED BY <1>1, <1>17, <1>18, UseFrame

(* A request ends.                                                         *)
LEMMA EndKeeps ==
  ASSUME DiskInv, NEW p \in Procs, end_request(p)
  PROVE  DiskInv'
<1> USE DEF DiskInv
<1>1. /\ req' = [req EXCEPT ![p] = None]
      /\ UNCHANGED <<build, lpc, todo, held, open_counter, opened, data>>
  BY DEF end_request
<1>2. req'[p] = None /\ \A q \in Procs : q # p => req'[q] = req[q]
  BY <1>1 DEF Requests
<1>3. \A q \in Procs : Writing(q)' => Writing(q) /\ q # p
  BY <1>2 DEF Writing, InFlight, None
<1>4. Clashes'
  BY <1>2, <1>3 DEF Requests, Clashes
<1>5. req' = [q \in Procs |-> req'[q]]
  BY <1>1 DEF Requests
<1>6. Requests'
  BY <1>1, <1>2, <1>4, <1>5 DEF Requests
<1>7. \A q \in Procs : q \notin opened => req'[q] = None
  BY <1>2 DEF Users
<1> QED BY <1>1, <1>6, <1>7, UseFrame

(* One segment is copied, in either build: the request lies on the disk,   *)
(* so that it is neither cut short nor failed.                             *)
LEMMA CopyKeeps ==
  ASSUME DiskInv, NEW p \in Procs, process_request(p) \/ process_bio(p)
  PROVE  DiskInv'
<1> USE DEF DiskInv
<1>0. /\ p \in InFlight /\ req[p].left > 0
      /\ UNCHANGED <<build, lpc, todo, held, open_counter, opened>>
  BY DEF process_request, process_bio
<1>1. req[p] # None /\ IsRequest(req[p]) /\ Bounds(req[p]) /\ Moved(req[p], data)
  BY <1>0, Flying
<1> DEFINE c == req[p].cur
           g == IF req[p].op = "read" THEN [req[p].got EXCEPT ![c] = data[c]] ELSE req[p].got
<1>2. /\ c \in Int /\ c + 1 <= capacity /\ c \in Sectors /\ c \in Span(req[p]) /\ 0 <= c
      /\ req[p].pos \in Int /\ req[p].pos <= c
  BY <1>0, <1>1, SbullAssumption DEF Bounds, Sectors, Span
<1>3. copy_segment(p, 1)
  <2>1. CASE process_request(p)
    BY <1>2, <2>1, SbullAssumption DEF process_request
  <2>2. CASE process_bio(p)
    BY <1>2, <2>2, SbullAssumption DEF process_bio
  <2> QED BY <2>1, <2>2
<1>4. data' = IF req[p].op = "write" THEN [data EXCEPT ![c] = req[p].val] ELSE data
  BY <1>3 DEF copy_segment
<1>5. /\ req'[p] = [req[p] EXCEPT !.cur = c + 1, !.left = req[p].left - 1, !.got = g]
      /\ \A q \in Procs : q # p => req'[q] = req[q]
      /\ req' = [q \in Procs |-> req'[q]]
  <2>1. req' = [req EXCEPT ![p].cur = @ + 1, ![p].left = @ - 1,
                           ![p].got = IF req[p].op = "read" /\ 1 = 1
                                      THEN [@ EXCEPT ![req[p].cur] = data[req[p].cur]] ELSE @]
    BY <1>3 DEF copy_segment
  <2>2. req = [q \in Procs |-> req[q]]
    BY DEF Requests
  <2> QED BY <2>1, <2>2
<1>6. g = [s \in Span(req[p]) |-> g[s]]
  BY <1>1 DEF IsRequest
<1>7. req[p].op = "read" => g[c] = data[c] /\ \A s \in Int : s # c => g[s] = req[p].got[s]
  BY <1>1, <1>2 DEF IsRequest
<1> HIDE DEF g
<1>8. /\ req'[p].op = req[p].op /\ req'[p].pos = req[p].pos /\ req'[p].n = req[p].n
      /\ req'[p].val = req[p].val /\ req'[p].cur = c + 1 /\ req'[p].left = req[p].left - 1
      /\ req'[p].got = g /\ req'[p].err = req[p].err /\ req'[p].clash = req[p].clash
      /\ Span(req'[p]) = Span(req[p]) /\ IsRequest(req'[p])
  <2>1. req[p] = [op |-> req[p].op, pos |-> req[p].pos, n |-> req[p].n, val |-> req[p].val,
                  cur |-> req[p].cur, left |-> req[p].left, got |-> req[p].got,
                  err |-> req[p].err, clash |-> req[p].clash]
    BY <1>1 DEF IsRequest
  <2>2. /\ req'[p].op = req[p].op /\ req'[p].pos = req[p].pos /\ req'[p].n = req[p].n
        /\ req'[p].val = req[p].val /\ req'[p].cur = c + 1 /\ req'[p].left = req[p].left - 1
        /\ req'[p].got = g /\ req'[p].err = req[p].err /\ req'[p].clash = req[p].clash
    BY <1>5, <2>1
  <2>3. req'[p] = [op |-> req'[p].op, pos |-> req'[p].pos, n |-> req'[p].n,
                   val |-> req'[p].val, cur |-> req'[p].cur, left |-> req'[p].left,
                   got |-> req'[p].got, err |-> req'[p].err, clash |-> req'[p].clash]
    BY <1>5, <2>1, <2>2
  <2>4. Span(req'[p]) = Span(req[p])
    BY <2>2, Zenon DEF Span
  <2>5. req'[p].got = [s \in Span(req'[p]) |-> req'[p].got[s]]
    BY <1>6, <2>2, <2>4
  <2> QED BY <2>2, <2>3, <2>4, <2>5 DEF IsRequest
<1>9. /\ data' = [s \in Sectors |-> data'[s]]
      /\ req[p].op = "write" => data'[c] = req[p].val
      /\ req[p].op # "write" => data' = data
      /\ \A s \in Int : s # c => data'[s] = data[s]
  <2>1. data = [s \in Sectors |-> data[s]]
    BY DEF Requests
  <2> QED BY <1>2, <1>4, <2>1
<1> HIDE DEF c
<1>10. Bounds(req'[p])
  <2>1. c = req[p].cur
    BY DEF c
  <2> QED BY <1>0, <1>1, <1>2, <1>8, <2>1 DEF Bounds
<1>11. Moved(req'[p], data')
  <2> SUFFICES ASSUME NEW s \in Int, req[p].pos <= s, s < c + 1, s \notin req[p].clash
               PROVE  IF req[p].op = "write" THEN data'[s] = req[p].val ELSE g[s] = data'[s]
    BY <1>8 DEF Moved
  <2>1. CASE s = c
    BY <1>1, <1>7, <1>9, <2>1 DEF Bounds
  <2>2. CASE s # c
    <3>1. s < c
      BY <1>2, <2>2
    <3>2. IF req[p].op = "write" THEN data[s] = req[p].val ELSE req[p].got[s] = data[s]
      BY <1>1, <3>1 DEF Moved, c
    <3> QED BY <1>1, <1>7, <1>9, <2>2, <3>2 DEF Bounds
  <2> QED BY <2>1, <2>2
<1>12. ASSUME NEW q \in Procs, q # p, req[q] # None PROVE Moved(req[q], data')
  <2>0. IsRequest(req[q]) /\ Bounds(req[q]) /\ Moved(req[q], data)
    BY <1>12, Flying
  <2>1. CASE req[p].op # "write"
    BY <1>9, <2>0, <2>1
  <2>2. CASE req[p].op = "write"
    <3>1. Writing(p)
      BY <1>1, <2>2, Flying
    <3>2. c \in Span(req[q]) => c \in req[q].clash
      BY <1>2, <1>12, <3>1 DEF Requests, Clashes
    <3>3. ASSUME NEW s \in Int, req[q].pos <= s, s < req[q].cur, s \notin req[q].clash
          PROVE  s # c
      <4>1. s \in Span(req[q])
        BY <2>0, <3>3 DEF Span, Bounds
      <4> QED BY <3>2, <3>3, <4>1
    <3> QED BY <1>9, <2>0, <3>3 DEF Moved
  <2> QED BY <2>1, <2>2
<1>13. req'[p] # None
  BY <1>10 DEF Bounds, None
<1>14. \A q \in Procs : Writing(q)' => Writing(q)
  BY <1>0, <1>5, <1>8 DEF Writing, InFlight
<1>15. Clashes'
  BY <1>1, <1>5, <1>8, <1>14 DEF Requests, Clashes
<1>16. \A q \in Procs : req'[q] = None \/
                          (IsRequest(req'[q]) /\ Bounds(req'[q]) /\ Moved(req'[q], data'))
  BY <1>5, <1>8, <1>10, <1>11, <1>12, Flying
<1>17. Requests'
  BY <1>5, <1>9, <1>15, <1>16 DEF Requests
<1>18. \A q \in Procs : q \notin opened => req'[q] = None
  BY <1>1, <1>5 DEF Users
<1> QED BY <1>0, <1>17, <1>18, UseFrame

(* Whatever fails while the module is loaded and however the requests of   *)
(* the processes overlap, the RAM disk stays in order.                     *)
THEOREM DiskCorrect == AllSpec => []DiskInv
<1>1. AllInit => DiskInv
  <2> SUFFICES ASSUME Init PROVE DiskInv
    BY DEF AllInit, NoSbull
  <2>1. held = Held({})
    BY DEF Init, Held
  <2>2. Loader
    BY <2>1, SbullAssumption DEF Init, Steps, Loader, AddsBio, AddsRequest, Stage
  <2>3. Users
    BY FS_EmptySet DEF Init, Users
  <2>4. Requests
    BY DEF Init, Requests, Clashes
  <2> QED BY <2>2, <2>3, <2>4 DEF DiskInv
<1>2. DiskInv /\ Next => DiskInv'
  BY LoaderSteps, OpenKeeps, SubmitKeeps, CopyKeeps, EndKeeps DEF Next
<1>3. DiskInv /\ UNCHANGED vars => DiskInv'
  <2> SUFFICES ASSUME DiskInv, UNCHANGED vars PROVE DiskInv'
    OBVIOUS
  <2>1. UNCHANGED <<build, lpc, todo, held, open_counter, opened, data, req>>
    BY DEF vars
  <2>2. \A p \in Procs : p \notin opened => req'[p] = None
    BY <2>1 DEF DiskInv, Users
  <2> QED BY <2>1, <2>2, UseFrame, RequestsFrame DEF DiskInv
<1>4. DiskInv /\ [AllNext]_allvars => DiskInv'
  BY <1>2, <1>3 DEF AllNext, allvars
<1> QED BY <1>1, <1>4, PTL DEF AllSpec

(* The module that is out holds nothing, whichever step of its loading     *)
(* failed, and nothing is released under what still uses it.               *)
THEOREM DiskReleased == AllSpec => [](NothingLeaked /\ ReleasedInOrder)
<1>1. DiskInv => NothingLeaked /\ ReleasedInOrder
  BY LoaderOrder DEF DiskInv
<1> QED BY <1>1, DiskCorrect, PTL

(* The memory of the disk is there while anybody has it open or has a      *)
(* request in flight.                                                      *)
THEOREM DataStaysLive == AllSpec => []DataLive
<1>1. DiskInv => DataLive
  <2> SUFFICES ASSUME DiskInv, open_counter # 0 \/ InFlight # {}
               PROVE  \A r \in {"data", "dev", "disk"} : held[r] > 0
    BY DEF DataLive
  <2>1. opened # {}
    <3>1. CASE open_counter # 0
      BY <3>1, FS_EmptySet DEF DiskInv, Users
    <3>2. CASE InFlight # {}
      <4>1. PICK p \in Procs : p \in InFlight
        BY <3>2 DEF InFlight
      <4> QED BY <4>1, Flying DEF DiskInv, Users
    <3> QED BY <3>1, <3>2
  <2> QED BY <2>1, LiveHolds DEF DiskInv, Users
<1> QED BY <1>1, DiskCorrect, PTL

(* A request that is served has moved all its sectors, whatever the other  *)
(* processes do, but for those another write touched meanwhile.            *)
THEOREM RequestsIntact == AllSpec => []RequestIntact
<1>1. DiskInv => RequestIntact
  <2> SUFFICES ASSUME DiskInv, NEW p \in InFlight, req[p].left = 0,
                      NEW s \in Span(req[p]), s \notin req[p].clash
               PROVE  IF req[p].op = "write" THEN s \in Sectors /\ data[s] = req[p].val
                      ELSE s \in Sectors /\ req[p].got[s] = data[s]
    BY DEF RequestIntact
  <2>1. p \in Procs
    BY DEF InFlight
  <2>2. Bounds(req[p]) /\ Moved(req[p], data)
    BY <2>1, Flying DEF DiskInv
  <2>3. s \in Int /\ s \in Sectors /\ req[p].pos <= s /\ s < req[p].cur
    BY <2>2, SbullAssumption DEF Bounds, Span, Sectors
  <2> QED BY <2>2, <2>3 DEF Moved
<1> QED BY <1>1, DiskCorrect, PTL

(* HDIO_GETGEO reports room for every sector, for every size that the      *)
(* 16 bits of the field cylinders have room for.                           *)
THEOREM GeometryHasRoom ==
  ASSUME \A cap \in Capacities : cap <= 65535 * 255 * 63
  PROVE  AllSpec => []GeometryCovers
<1>1. ASSUME NEW cap \in Capacities
      PROVE  LET g == ioctl_hdio_getgeo(cap)
                 size == g.cylinders * g.heads * g.sectors
             IN  size >= cap /\ size - cap < IF g.cylinders = 1 THEN 63 ELSE 63 * 255
  <2> DEFINE q == (cap + 62) \div 63
  <2>0. cap \in Nat /\ cap <= 1052819775
    BY SbullAssumption
  <2>1. q \in Nat /\ cap <= 63 * q /\ 63 * q < cap + 63
    BY <2>0
  <2>2. CASE cap <= 63
    <3>1. cap % 256 = cap
      BY <2>0, <2>2
    <3> QED BY <2>0, <2>2, <3>1 DEF ioctl_hdio_getgeo
  <2>3. CASE cap > 63 /\ q <= 255
    <3>1. q % 256 = q
      BY <2>1, <2>3
    <3>2. ioctl_hdio_getgeo(cap) = [sectors |-> 63, heads |-> q, cylinders |-> 1]
      BY <2>0, <2>3, <3>1 DEF ioctl_hdio_getgeo
    <3> QED BY <2>0, <2>1, <3>2
  <2>4. CASE cap > 63 /\ q > 255
    <3> DEFINE c == (q + 254) \div 255
    <3>1. c \in Nat /\ q <= 255 * c /\ 255 * c < q + 255 /\ c # 1
      BY <2>1, <2>4
    <3>2. c % 65536 = c
      BY <2>0, <2>1, <3>1
    <3>3. ioctl_hdio_getgeo(cap) = [sectors |-> 63, heads |-> 255, cylinders |-> c]
      BY <2>0, <2>4, <3>2 DEF ioctl_hdio_getgeo
    <3> QED BY <2>0, <2>1, <3>1, <3>3
  <2> QED BY <2>0, <2>1, <2>2, <2>3, <2>4
<1>2. GeometryCovers
  BY <1>1 DEF GeometryCovers
<1> QED BY <1>2, PTL
-----------------------------------------------------------------------------
(***************************************************************************)
(* Loading the other modules.  Every init acquires in an ascending order   *)
(* of its resources and every cleanup releases in a descending one.        *)
(***************************************************************************)
Rank(r) ==
  CASE r \in {"region", "chrdev"} -> 1
    [] r = "class" -> 2
    [] r = "cache" -> 3
    [] r = "device" -> 4
    [] r = "memory" -> 5
    [] r = "ready" -> 6
    [] r \in {"cdev", "proc"} -> 7

Entries(s)    == {s[i] : i \in 1 .. Len(s)}
Ascending(s)  == \A i, j \in 1 .. Len(s) : i < j => Rank(s[i].res) < Rank(s[j].res)
Descending(s) == \A i, j \in 1 .. Len(s) : i < j => Rank(s[j].res) < Rank(s[i].res)

Acquires == Loading!Modules[driver].init
Releases == Loading!Modules[driver].cleanup

(* What init has of a resource once it is past its step.                   *)
Taken(t) ==
  /\ have[t.res] <= t.n
  /\ t.else \in {"return", "cleanup", "never"} => have[t.res] = t.n
  /\ have[t.res] = t.n \/ failed # {}

(* What the module holds was acquired by its init, after everything below. *)
Stacked ==
  \A r \in Loading!Resources : have[r] > 0 =>
    \E t \in Entries(Acquires) : t.res = r /\ have[r] <= t.n
      /\ \A u \in Entries(Acquires) : Rank(u.res) < Rank(r) => Taken(u)

Initialising ==
  /\ script \in Seq(Entries(Acquires)) /\ script # <<>> /\ Ascending(script)
  /\ \A u \in Entries(Acquires) \ Entries(script) :
       Taken(u) /\ \A t \in Entries(script) : Rank(u.res) < Rank(t.res)
  /\ \A r \in Loading!Resources : have[r] > 0 => \E u \in Entries(Acquires) \ Entries(script) : u.res = r
  /\ ~bad

Live ==
  /\ \A u \in Entries(Acquires) : Taken(u)
  /\ \A r \in Loading!Resources : have[r] > 0 => \E u \in Entries(Acquires) : u.res = r
  /\ ~bad

(* cleanup will find what it takes for granted.                            *)
Expected(t) ==
  /\ t.res = "cdev" => \/ have["ready"] >= t.n
                       \/ driver \in {"scull_device", "scull_p"} /\ have["memory"] = 0
                       \/ driver = "scullc" /\ "cache" \in failed
  /\ t.res = "region" => have["region"] \in {0, t.n} \/ driver = "scull"

Undoing ==
  /\ script \in Seq(Entries(Releases)) /\ script # <<>> /\ Descending(script)
  /\ \A r \in Loading!Released : have[r] > 0 =>
       (driver = "scull" /\ r = "region") \/ \E t \in Entries(script) : t.res = r
  /\ \A t \in Entries(script) : Expected(t)
  /\ Loading!ReachableIsReady

Out ==
  /\ \A r \in Loading!Released : have[r] > 0 => driver = "scull" /\ r = "region"
  /\ Loading!ReachableIsReady

LoadTypes ==
  /\ driver \in DOMAIN Loading!Modules
  /\ have \in [Loading!Resources -> Nat]

Excused == driver = "scullc" /\ "cache" \in failed

(* Loading and unloading, at every step.                                   *)
LoadInv ==
  /\ LoadTypes
  /\ mpc \in {"out", "init", "live", "cleanup"}
  /\ mpc = "init" => Initialising
  /\ mpc = "live" => Live
  /\ mpc = "cleanup" => Undoing
  /\ mpc = "out" => Out
  /\ bad => Excused

(* What the scripts of a module have to be for this.                       *)
AcquiresOK ==
  /\ Acquires \in Seq(Entries(Acquires)) /\ Acquires # <<>> /\ Ascending(Acquires)
  /\ \A t \in Entries(Acquires) :
       /\ t.res \in Loading!Resources /\ t.n \in Nat \ {0}
       /\ t.else = "return" => Rank(t.res) = 1
       /\ t.res = "region" => t.else = "return"
       /\ t.res = "cdev" => t.else = "continue"

ReleasesOK ==
  /\ Releases \in Seq(Entries(Releases)) /\ Releases # <<>> /\ Descending(Releases)
  /\ \A u \in Entries(Releases) :
       /\ u.res \in Loading!Released /\ u.n \in Nat
       /\ \/ u.if = "any" \/ u.if = u.res
          \/ u.res = "cdev" /\ u.if = "memory" /\ driver \in {"scull_device", "scull_p"}
       /\ u.res = "cdev" /\ driver \in {"scull_device", "scull_p"} => u.if = "memory"

Matching ==
  /\ \A t \in Entries(Acquires) : t.res \in Loading!Released => \E u \in Entries(Releases) : u.res = t.res
  /\ \A t \in Entries(Acquires), u \in Entries(Releases) : t.res = u.res => t.n = u.n \/ driver = "scull"

Supported ==
  /\ \A t \in Entries(Acquires) \cup Entries(Releases) : t.res = "cdev" =>
       /\ \E v \in Entries(Acquires) : v.res = "ready" /\ v.n = t.n /\ v.else = "never"
       /\ \E v \in Entries(Acquires) : v.res \in {"region", "chrdev"} /\ v.else = "return"
       /\ driver \in {"scull_device", "scull_p"}
            => \E v \in Entries(Acquires) : v.res = "memory" /\ v.else = "cleanup"
       /\ \A s \in Entries(Acquires) : s.else = "cleanup" =>
            s.n = 1 /\ \/ driver \in {"scull_device", "scull_p"} /\ s.res = "memory"
                       \/ driver = "scullc" /\ s.res = "cache"
  /\ driver = "jiq" => \E v \in Entries(Acquires) : v.res = "ready" /\ v.else = "never"

(* The entries of a script that is written out.                            *)
LEMMA Entries1 == ASSUME NEW a PROVE Entries(<<a>>) = {a}
BY DEF Entries
(* The same, of two  entries.                                              *)
LEMMA Entries2 == ASSUME NEW a, NEW b PROVE Entries(<<a, b>>) = {a, b}
BY DEF Entries
(* The same, of four entries.                                              *)
LEMMA Entries4 == ASSUME NEW a, NEW b, NEW c, NEW d PROVE Entries(<<a, b, c, d>>) = {a, b, c, d}
BY DEF Entries
(* The same, of five entries.                                              *)
LEMMA Entries5 ==
  ASSUME NEW a, NEW b, NEW c, NEW d, NEW e
  PROVE  Entries(<<a, b, c, d, e>>) = {a, b, c, d, e}
BY DEF Entries
(* The same, of six  entries.                                              *)
LEMMA Entries6 ==
  ASSUME NEW a, NEW b, NEW c, NEW d, NEW e, NEW f
  PROVE  Entries(<<a, b, c, d, e, f>>) = {a, b, c, d, e, f}
BY DEF Entries

(* The order of acquiring, as numbers.                                     *)
LEMMA Ranks ==
  /\ Rank("region") = 1 /\ Rank("chrdev") = 1
  /\ Rank("class") = 2 /\ Rank("cache") = 3 /\ Rank("device") = 4
  /\ Rank("memory") = 5 /\ Rank("ready") = 6 /\ Rank("cdev") = 7 /\ Rank("proc") = 7
  /\ \A r \in Loading!Resources : Rank(r) \in 1 .. 7
BY DEF Rank, Loading!Resources

(* What an entry of a script says.                                         *)
LEMMA Fields ==
  \A r, n, x :
    /\ Loading!Take(r, n, x).res = r /\ Loading!Take(r, n, x).n = n /\ Loading!Take(r, n, x).else = x
    /\ Loading!Drop(r, n, x).res = r /\ Loading!Drop(r, n, x).n = n /\ Loading!Drop(r, n, x).if = x
BY DEF Loading!Take, Loading!Drop

(* The scripts of all ten modules are like that.                           *)
LEMMA ScriptsOK ==
  ASSUME driver \in DOMAIN Loading!Modules
  PROVE  AcquiresOK /\ ReleasesOK /\ Matching /\ Supported
<1> USE Ranks, Fields DEF Loading!Resources, Loading!Released
<1>1. CASE driver = "scull"
  <2>1. Acquires = Loading!scull_init /\ Releases = Loading!scull_cleanup
    BY <1>1 DEF Acquires, Releases, Loading!Modules
  <2>2. Ascending(Acquires) /\ Acquires # <<>> /\ Descending(Releases) /\ Releases # <<>>
    BY <2>1 DEF Ascending, Descending, Loading!scull_init, Loading!scull_cleanup
  <2>3. AcquiresOK /\ ReleasesOK
    BY <1>1, <2>1, <2>2, Entries4, Entries5 DEF AcquiresOK, ReleasesOK, Loading!scull_init, Loading!scull_cleanup
  <2>4. Matching /\ Supported
    BY <1>1, <2>1, Entries4, Entries5 DEF Matching, Supported, Loading!scull_init, Loading!scull_cleanup
  <2> QED BY <2>3, <2>4
<1>2. CASE driver = "scullc"
  <2>1. Acquires = Loading!scullc_init /\ Releases = Loading!scullc_cleanup
    BY <1>2 DEF Acquires, Releases, Loading!Modules
  <2>2. Ascending(Acquires) /\ Acquires # <<>> /\ Descending(Releases) /\ Releases # <<>>
    BY <2>1 DEF Ascending, Descending, Loading!scullc_init, Loading!scullc_cleanup
  <2>3. AcquiresOK /\ ReleasesOK
    BY <1>2, <2>1, <2>2, Entries5, Entries6 DEF AcquiresOK, ReleasesOK, Loading!scullc_init, Loading!scullc_cleanup
  <2>4. Matching /\ Supported
    BY <1>2, <2>1, Entries5, Entries6 DEF Matching, Supported, Loading!scullc_init, Loading!scullc_cleanup
  <2> QED BY <2>3, <2>4
<1>3. CASE driver = "scullp"
  <2>1. Acquires = Loading!scullp_init /\ Releases = Loading!scullp_cleanup
    BY <1>3 DEF Acquires, Releases, Loading!Modules
  <2>2. Ascending(Acquires) /\ Acquires # <<>> /\ Descending(Releases) /\ Releases # <<>>
    BY <2>1 DEF Ascending, Descending, Loading!scullp_init, Loading!scullp_cleanup
  <2>3. AcquiresOK /\ ReleasesOK
    BY <1>3, <2>1, <2>2, Entries4, Entries5 DEF AcquiresOK, ReleasesOK, Loading!scullp_init, Loading!scullp_cleanup
  <2>4. Matching /\ Supported
    BY <1>3, <2>1, Entries4, Entries5 DEF Matching, Supported, Loading!scullp_init, Loading!scullp_cleanup
  <2> QED BY <2>3, <2>4
<1>4. CASE driver = "scullv"
  <2>1. Acquires = Loading!scullv_init /\ Releases = Loading!scullv_cleanup
    BY <1>4 DEF Acquires, Releases, Loading!Modules
  <2>2. Ascending(Acquires) /\ Acquires # <<>> /\ Descending(Releases) /\ Releases # <<>>
    BY <2>1 DEF Ascending, Descending, Loading!scullv_init, Loading!scullv_cleanup, Loading!scullp_init, Loading!scullp_cleanup
  <2>3. AcquiresOK /\ ReleasesOK
    BY <1>4, <2>1, <2>2, Entries4, Entries5 DEF AcquiresOK, ReleasesOK, Loading!scullv_init, Loading!scullv_cleanup, Loading!scullp_init, Loading!scullp_cleanup
  <2>4. Matching /\ Supported
    BY <1>4, <2>1, Entries4, Entries5 DEF Matching, Supported, Loading!scullv_init, Loading!scullv_cleanup, Loading!scullp_init, Loading!scullp_cleanup
  <2> QED BY <2>3, <2>4
<1>5. CASE driver = "sleepy"
  <2>1. Acquires = Loading!sleepy_init /\ Releases = Loading!sleepy_cleanup
    BY <1>5 DEF Acquires, Releases, Loading!Modules
  <2>2. Ascending(Acquires) /\ Acquires # <<>> /\ Descending(Releases) /\ Releases # <<>>
    BY <2>1 DEF Ascending, Descending, Loading!sleepy_init, Loading!sleepy_cleanup
  <2>3. AcquiresOK /\ ReleasesOK
    BY <1>5, <2>1, <2>2, Entries4, Entries5 DEF AcquiresOK, ReleasesOK, Loading!sleepy_init, Loading!sleepy_cleanup
  <2>4. Matching /\ Supported
    BY <1>5, <2>1, Entries4, Entries5 DEF Matching, Supported, Loading!sleepy_init, Loading!sleepy_cleanup
  <2> QED BY <2>3, <2>4
<1>6. CASE driver = "complete"
  <2>1. Acquires = Loading!complete_init /\ Releases = Loading!complete_cleanup
    BY <1>6 DEF Acquires, Releases, Loading!Modules
  <2>2. Ascending(Acquires) /\ Acquires # <<>> /\ Descending(Releases) /\ Releases # <<>>
    BY <2>1 DEF Ascending, Descending, Loading!complete_init, Loading!complete_cleanup, Loading!sleepy_init, Loading!sleepy_cleanup
  <2>3. AcquiresOK /\ ReleasesOK
    BY <1>6, <2>1, <2>2, Entries4, Entries5 DEF AcquiresOK, ReleasesOK, Loading!complete_init, Loading!complete_cleanup, Loading!sleepy_init, Loading!sleepy_cleanup
  <2>4. Matching /\ Supported
    BY <1>6, <2>1, Entries4, Entries5 DEF Matching, Supported, Loading!complete_init, Loading!complete_cleanup, Loading!sleepy_init, Loading!sleepy_cleanup
  <2> QED BY <2>3, <2>4
<1>7. CASE driver = "scull_device"
  <2>1. Acquires = Loading!scull_device_init /\ Releases = Loading!scull_device_cleanup
    BY <1>7 DEF Acquires, Releases, Loading!Modules
  <2>2. Ascending(Acquires) /\ Acquires # <<>> /\ Descending(Releases) /\ Releases # <<>>
    BY <2>1 DEF Ascending, Descending, Loading!scull_device_init, Loading!scull_device_cleanup
  <2>3. AcquiresOK /\ ReleasesOK
    BY <1>7, <2>1, <2>2, Entries5, Entries6 DEF AcquiresOK, ReleasesOK, Loading!scull_device_init, Loading!scull_device_cleanup
  <2>4. Matching /\ Supported
    BY <1>7, <2>1, Entries5, Entries6 DEF Matching, Supported, Loading!scull_device_init, Loading!scull_device_cleanup
  <2> QED BY <2>3, <2>4
<1>8. CASE driver = "scull_p"
  <2>1. Acquires = Loading!scull_p_init /\ Releases = Loading!scull_p_cleanup
    BY <1>8 DEF Acquires, Releases, Loading!Modules
  <2>2. Ascending(Acquires) /\ Acquires # <<>> /\ Descending(Releases) /\ Releases # <<>>
    BY <2>1 DEF Ascending, Descending, Loading!scull_p_init, Loading!scull_p_cleanup
  <2>3. AcquiresOK /\ ReleasesOK
    BY <1>8, <2>1, <2>2, Entries5, Entries6 DEF AcquiresOK, ReleasesOK, Loading!scull_p_init, Loading!scull_p_cleanup
  <2>4. Matching /\ Supported
    BY <1>8, <2>1, Entries5, Entries6 DEF Matching, Supported, Loading!scull_p_init, Loading!scull_p_cleanup
  <2> QED BY <2>3, <2>4
<1>9. CASE driver = "jit"
  <2>1. Acquires = Loading!jit_init /\ Releases = Loading!jit_cleanup
    BY <1>9 DEF Acquires, Releases, Loading!Modules
  <2>2. Ascending(Acquires) /\ Acquires # <<>> /\ Descending(Releases) /\ Releases # <<>>
    BY <2>1 DEF Ascending, Descending, Loading!jit_init, Loading!jit_cleanup
  <2>3. AcquiresOK /\ ReleasesOK
    BY <1>9, <2>1, <2>2, Entries1 DEF AcquiresOK, ReleasesOK, Loading!jit_init, Loading!jit_cleanup
  <2>4. Matching /\ Supported
    BY <1>9, <2>1, Entries1 DEF Matching, Supported, Loading!jit_init, Loading!jit_cleanup
  <2> QED BY <2>3, <2>4
<1>10. CASE driver = "jiq"
  <2>1. Acquires = Loading!jiq_init /\ Releases = Loading!jiq_cleanup
    BY <1>10 DEF Acquires, Releases, Loading!Modules
  <2>2. Ascending(Acquires) /\ Acquires # <<>> /\ Descending(Releases) /\ Releases # <<>>
    BY <2>1 DEF Ascending, Descending, Loading!jiq_init, Loading!jiq_cleanup
  <2>3. AcquiresOK /\ ReleasesOK
    BY <1>10, <2>1, <2>2, Entries1, Entries2 DEF AcquiresOK, ReleasesOK, Loading!jiq_init, Loading!jiq_cleanup
  <2>4. Matching /\ Supported
    BY <1>10, <2>1, Entries1, Entries2 DEF Matching, Supported, Loading!jiq_init, Loading!jiq_cleanup
  <2> QED BY <2>3, <2>4
<1> QED BY <1>1, <1>2, <1>3, <1>4, <1>5, <1>6, <1>7, <1>8, <1>9, <1>10 DEF Loading!Modules

(* One step of a script.                                                   *)
LEMMA TailEntries ==
  ASSUME NEW S, NEW s \in Seq(S), s # <<>>
  PROVE  /\ Head(s) \in Entries(s) /\ Entries(s) \subseteq S
         /\ Tail(s) \in Seq(S) /\ Entries(s) = {Head(s)} \cup Entries(Tail(s))
         /\ Tail(s) = <<>> => Entries(Tail(s)) = {}
         /\ Ascending(s) => /\ Ascending(Tail(s))
                            /\ \A t \in Entries(Tail(s)) : Rank(Head(s).res) < Rank(t.res)
         /\ Descending(s) => /\ Descending(Tail(s))
                             /\ \A t \in Entries(Tail(s)) : Rank(t.res) < Rank(Head(s).res)
<1>1. /\ Len(s) \in Nat /\ Len(s) > 0 /\ Head(s) = s[1]
      /\ Tail(s) \in Seq(S) /\ Len(Tail(s)) = Len(s) - 1
      /\ \A i \in 1 .. Len(s) - 1 : Tail(s)[i] = s[i + 1]
      /\ \A i \in 1 .. Len(s) : s[i] \in S
  OBVIOUS
<1> DEFINE x == Tail(s)
<1> HIDE DEF x
<1>2. /\ Len(x) = Len(s) - 1 /\ \A i \in 1 .. Len(x) : x[i] = s[i + 1]
  BY <1>1 DEF x
<1>3. 1 \in 1 .. Len(s) /\ \A i \in 1 .. Len(x) : i + 1 \in 1 .. Len(s)
  BY <1>1, <1>2
<1>4. Entries(s) = {s[1]} \cup Entries(x)
  <2>1. ASSUME NEW e \in Entries(s) PROVE e \in {s[1]} \cup Entries(x)
    <3>1. PICK i \in 1 .. Len(s) : e = s[i]
      BY <2>1 DEF Entries
    <3>2. i = 1 \/ (i - 1 \in 1 .. Len(x) /\ x[i - 1] = s[i])
      BY <1>1, <1>2, <3>1
    <3> QED BY <3>1, <3>2 DEF Entries
  <2>2. ASSUME NEW e \in Entries(x) PROVE e \in Entries(s)
    <3>1. PICK i \in 1 .. Len(x) : e = x[i]
      BY <2>2 DEF Entries
    <3> QED BY <1>2, <1>3, <3>1 DEF Entries
  <2>3. s[1] \in Entries(s)
    BY <1>3 DEF Entries
  <2> QED BY <2>1, <2>2, <2>3
<1>5. Ascending(s) => Ascending(x) /\ \A t \in Entries(x) : Rank(s[1].res) < Rank(t.res)
  <2> SUFFICES ASSUME Ascending(s) PROVE Ascending(x) /\ \A t \in Entries(x) : Rank(s[1].res) < Rank(t.res)
    OBVIOUS
  <2>1. \A i, j \in 1 .. Len(x) : i < j => Rank(x[i].res) < Rank(x[j].res)
    BY <1>1, <1>2, <1>3 DEF Ascending
  <2>2. \A i \in 1 .. Len(x) : Rank(s[1].res) < Rank(x[i].res)
    BY <1>1, <1>2, <1>3 DEF Ascending
  <2> QED BY <2>1, <2>2 DEF Ascending, Entries
<1>6. Descending(s) => Descending(x) /\ \A t \in Entries(x) : Rank(t.res) < Rank(s[1].res)
  <2> SUFFICES ASSUME Descending(s) PROVE Descending(x) /\ \A t \in Entries(x) : Rank(t.res) < Rank(s[1].res)
    OBVIOUS
  <2>1. \A i, j \in 1 .. Len(x) : i < j => Rank(x[j].res) < Rank(x[i].res)
    BY <1>1, <1>2, <1>3 DEF Descending
  <2>2. \A i \in 1 .. Len(x) : Rank(x[i].res) < Rank(s[1].res)
    BY <1>1, <1>2, <1>3 DEF Descending
  <2> QED BY <2>1, <2>2 DEF Descending, Entries
<1>7. /\ Entries(s) \subseteq S /\ Head(s) \in Entries(s)
      /\ x = <<>> => Entries(x) = {}
  BY <1>1, <1>3, <1>4 DEF Entries
<1> QED BY <1>1, <1>4, <1>5, <1>6, <1>7 DEF x

(* A resource is acquired in one place.                                    *)
LEMMA OneEntry ==
  ASSUME NEW s, Ascending(s), NEW t \in Entries(s), NEW u \in Entries(s), Rank(t.res) = Rank(u.res),
         Len(s) \in Nat, Rank(t.res) \in Nat
  PROVE  t = u
<1>1. PICK i, j \in 1 .. Len(s) : t = s[i] /\ u = s[j]
  BY DEF Entries
<1>2. ~(i < j) /\ ~(j < i)
  BY <1>1 DEF Ascending
<1> QED BY <1>1, <1>2

(* What is in the module during its init, and after it.                    *)
LEMMA InitStacked ==
  LoadTypes /\ (Initialising \/ Live) => Stacked
<1> SUFFICES ASSUME LoadTypes, Initialising \/ Live PROVE Stacked
  OBVIOUS
<1>1. AcquiresOK
  BY ScriptsOK DEF LoadTypes
<1>2. \A t \in Entries(Acquires) : Rank(t.res) \in Nat
  BY <1>1, Ranks DEF AcquiresOK
<1>3. Entries(script) \subseteq Entries(Acquires) \/ Live
  BY TailEntries DEF Initialising
<1>4. CASE Live
  BY <1>4 DEF Live, Stacked, Taken
<1>5. CASE Initialising
  <2> SUFFICES ASSUME NEW r \in Loading!Resources, have[r] > 0
               PROVE  \E t \in Entries(Acquires) : t.res = r /\ have[r] <= t.n
                        /\ \A u \in Entries(Acquires) : Rank(u.res) < Rank(r) => Taken(u)
    BY DEF Stacked
  <2>1. PICK t \in Entries(Acquires) \ Entries(script) : t.res = r
    BY <1>5 DEF Initialising
  <2>2. Taken(t) /\ \A u \in Entries(script) : Rank(r) < Rank(u.res)
    BY <1>5, <2>1 DEF Initialising
  <2>3. ASSUME NEW u \in Entries(Acquires), Rank(u.res) < Rank(r) PROVE Taken(u)
    <3>1. u \notin Entries(script)
      BY <1>2, <2>1, <2>2, <2>3
    <3> QED BY <1>5, <3>1 DEF Initialising
  <2> QED BY <2>1, <2>2, <2>3 DEF Taken
<1> QED BY <1>4, <1>5

(* So a user can reach only what is set up.                                *)
LEMMA StackedReady ==
  LoadTypes /\ Stacked => Loading!ReachableIsReady
<1> SUFFICES ASSUME LoadTypes, Stacked PROVE Loading!ReachableIsReady
  OBVIOUS
<1>1. AcquiresOK /\ Supported
  BY ScriptsOK DEF LoadTypes
<1>2. ASSUME have["cdev"] > 0
      PROVE  /\ have["ready"] >= have["cdev"]
             /\ have["region"] > 0 \/ have["chrdev"] > 0
             /\ driver \in {"scull_device", "scull_p"} => have["memory"] > 0
  <2>1. PICK t \in Entries(Acquires) :
          t.res = "cdev" /\ have["cdev"] <= t.n
            /\ \A u \in Entries(Acquires) : Rank(u.res) < Rank("cdev") => Taken(u)
    BY <1>2 DEF Stacked, Loading!Resources
  <2>2. /\ \E v \in Entries(Acquires) : v.res = "ready" /\ v.n = t.n /\ v.else = "never"
        /\ \E v \in Entries(Acquires) : v.res \in {"region", "chrdev"} /\ v.else = "return"
        /\ driver \in {"scull_device", "scull_p"}
             => \E v \in Entries(Acquires) : v.res = "memory" /\ v.else = "cleanup"
    BY <1>1, <2>1 DEF Supported
  <2>3. have["ready"] = t.n
    BY <2>1, <2>2, Ranks DEF Taken
  <2>4. have["region"] > 0 \/ have["chrdev"] > 0
    BY <1>1, <2>1, <2>2, Ranks DEF Taken, AcquiresOK
  <2>5. driver \in {"scull_device", "scull_p"} => have["memory"] > 0
    BY <1>1, <2>1, <2>2, Ranks DEF Taken, AcquiresOK
  <2> QED BY <2>1, <2>3, <2>4, <2>5
<1>3. driver = "jiq" /\ have["proc"] > 0 => have["ready"] > 0
  <2> SUFFICES ASSUME driver = "jiq", have["proc"] > 0 PROVE have["ready"] > 0
    OBVIOUS
  <2>1. \A u \in Entries(Acquires) : Rank(u.res) < Rank("proc") => Taken(u)
    BY DEF Stacked, Loading!Resources
  <2> QED BY <1>1, <2>1, Ranks DEF Supported, Taken, AcquiresOK
<1> QED BY <1>2, <1>3 DEF Loading!ReachableIsReady

(* Where the cleanup function is entered: init is complete, or a step of   *)
(* it failed and what comes before it is there.                            *)
Stopped(s) ==
  /\ s.else = "cleanup" /\ s.res \in failed /\ have[s.res] < s.n
  /\ \A u \in Entries(Acquires) : Rank(u.res) < Rank(s.res) => Taken(u)
  /\ \A u \in Entries(Acquires) : Rank(s.res) < Rank(u.res) => have[u.res] = 0

Complete == \A u \in Entries(Acquires) : Taken(u)

(* The cleanup function is about to run, after init or in its place.       *)
Entered ==
  /\ LoadTypes /\ Stacked /\ script = Releases
  /\ Complete \/ \E s \in Entries(Acquires) : Stopped(s)

(* It will find what it takes for granted.                                 *)
LEMMA UndoStarts == Entered => Undoing
<1> SUFFICES ASSUME LoadTypes, Stacked, script = Releases,
                    Complete \/ \E s \in Entries(Acquires) : Stopped(s)
             PROVE  Undoing
  BY DEF Entered
<1>1. AcquiresOK /\ ReleasesOK /\ Matching /\ Supported
  BY ScriptsOK DEF LoadTypes
<1>2. Loading!ReachableIsReady
  BY StackedReady
<1>3. ASSUME NEW r \in Loading!Released, have[r] > 0 PROVE \E t \in Entries(script) : t.res = r
  <2>1. r \in Loading!Resources
    BY DEF Loading!Released
  <2>2. PICK t \in Entries(Acquires) : t.res = r
    BY <1>3, <2>1 DEF Stacked
  <2> QED BY <1>1, <2>2 DEF Matching
<1>4. ASSUME NEW t \in Entries(Releases), t.res = "cdev"
      PROVE  \/ have["ready"] >= t.n
             \/ driver \in {"scull_device", "scull_p"} /\ have["memory"] = 0
             \/ driver = "scullc" /\ "cache" \in failed
  <2>1. /\ \E v \in Entries(Acquires) : v.res = "ready" /\ v.n = t.n /\ v.else = "never"
        /\ \A s \in Entries(Acquires) : s.else = "cleanup" =>
            s.n = 1 /\ \/ driver \in {"scull_device", "scull_p"} /\ s.res = "memory"
                       \/ driver = "scullc" /\ s.res = "cache"
    BY <1>1, <1>4 DEF Supported
  <2>2. CASE Complete
    BY <1>1, <2>1, <2>2 DEF Complete, Taken, AcquiresOK
  <2>3. ASSUME NEW s \in Entries(Acquires), Stopped(s)
        PROVE  \/ driver \in {"scull_device", "scull_p"} /\ have["memory"] = 0
               \/ driver = "scullc" /\ "cache" \in failed
    <3>1. s.else = "cleanup"
      BY <2>3 DEF Stopped
    <3>2. s.n = 1 /\ have[s.res] < 1 /\ s.res \in failed /\ have[s.res] \in Nat
      BY <1>1, <2>1, <2>3, <3>1 DEF Stopped, LoadTypes, AcquiresOK
    <3> QED BY <2>1, <3>1, <3>2
  <2> QED BY <2>2, <2>3
<1>5. ASSUME NEW t \in Entries(Releases), t.res = "region"
      PROVE  have["region"] \in {0, t.n} \/ driver = "scull"
  <2> SUFFICES ASSUME have["region"] > 0, driver # "scull" PROVE have["region"] = t.n
    BY DEF LoadTypes, Loading!Resources
  <2>1. PICK a \in Entries(Acquires) : a.res = "region"
    BY DEF Stacked, Loading!Resources
  <2>2. a.n = t.n /\ a.else = "return" /\ Rank(a.res) = 1
    BY <1>1, <1>5, <2>1, Ranks DEF Matching, AcquiresOK
  <2>3. Taken(a)
    <3>1. CASE Complete
      BY <3>1 DEF Complete
    <3>2. ASSUME NEW s \in Entries(Acquires), Stopped(s) PROVE Taken(a)
      <4>1. s # a /\ Rank(s.res) \in 1 .. 7
        BY <1>1, <2>2, <3>2, Ranks DEF Stopped, AcquiresOK
      <4>2. Len(Acquires) \in Nat
        BY <1>1 DEF AcquiresOK
      <4>3. Rank(s.res) # 1
        BY <1>1, <2>2, <4>1, <4>2, OneEntry DEF AcquiresOK
      <4> QED BY <2>2, <3>2, <4>1, <4>3 DEF Stopped
    <3> QED BY <3>1, <3>2
  <2> QED BY <2>1, <2>2, <2>3 DEF Taken
<1>6. \A t \in Entries(Releases) : Expected(t)
  BY <1>4, <1>5 DEF Expected
<1> QED BY <1>1, <1>2, <1>3, <1>6 DEF Undoing, ReleasesOK

(* A step of init took what it was to take, or what there was.             *)
LEMMA InitMoves ==
  ASSUME LoadTypes, Initialising, driver' = driver, bad' = bad, NEW k \in Nat,
         NEW s, s = Head(script), have' = [have EXCEPT ![s.res] = k], k <= s.n,
         \/ k = s.n /\ failed' = failed
         \/ /\ s.else = "continue"
            /\ failed' = failed \cup {s.res},
         script' = Tail(script)
  PROVE  LoadTypes' /\ (script' = <<>> => Live') /\ (script' # <<>> => Initialising')
<1> DEFINE A == Entries(Acquires)
<1>1. AcquiresOK
  BY ScriptsOK DEF LoadTypes
<1>2. /\ s \in Entries(script) /\ Entries(script) \subseteq A
      /\ Tail(script) \in Seq(A) /\ Entries(script) = {s} \cup Entries(Tail(script))
      /\ Tail(script) = <<>> => Entries(Tail(script)) = {}
      /\ Ascending(Tail(script))
      /\ \A t \in Entries(Tail(script)) : Rank(s.res) < Rank(t.res)
  BY TailEntries DEF Initialising
<1>3. s \in A /\ s.res \in Loading!Resources /\ \A t \in A : Rank(t.res) \in Nat
  <2>1. s \in A
    BY <1>2
  <2>2. \A t \in A : t.res \in Loading!Resources
    BY <1>1 DEF AcquiresOK
  <2>3. \A r \in Loading!Resources : Rank(r) \in Nat
    BY Ranks
  <2> QED BY <2>1, <2>2, <2>3
<1>4. \A t \in Entries(script) : Rank(s.res) <= Rank(t.res)
  BY <1>2, <1>3
<1>5. /\ Acquires' = Acquires /\ LoadTypes'
      /\ have'[s.res] = k /\ \A r \in Loading!Resources : r # s.res => have'[r] = have[r]
  BY <1>3 DEF LoadTypes, Acquires
<1>6. ASSUME NEW u \in A, u \notin Entries(script')
      PROVE  Taken(u)' /\ \A t \in Entries(script') : Rank(u.res) < Rank(t.res)
  <2>1. CASE u = s
    <3>1. \A t \in Entries(script') : Rank(s.res) < Rank(t.res)
      BY <1>2
    <3>2. Taken(s)'
      BY <1>5 DEF Taken
    <3> QED BY <2>1, <3>1, <3>2
  <2>2. CASE u # s
    <3>1. u \notin Entries(script)
      BY <1>2, <1>6, <2>2
    <3>2. Taken(u) /\ \A t \in Entries(script) : Rank(u.res) < Rank(t.res)
      BY <3>1 DEF Initialising
    <3>3. u.res # s.res /\ u.res \in Loading!Resources
      <4>1. Rank(u.res) < Rank(s.res) /\ Rank(s.res) \in Nat
        BY <1>2, <1>3, <3>2
      <4>2. Rank(u.res) # Rank(s.res)
        BY <1>3, <4>1
      <4> QED BY <1>1, <4>2 DEF AcquiresOK
    <3>4. have'[u.res] = have[u.res] /\ (failed # {} => failed' # {})
      BY <1>5, <3>3
    <3>5. Taken(u)'
      BY <3>2, <3>4 DEF Taken
    <3> QED BY <1>2, <3>2, <3>5
  <2> QED BY <2>1, <2>2
<1>7. ASSUME NEW r \in Loading!Resources, have'[r] > 0
      PROVE  \E u \in A \ Entries(script') : u.res = r
  <2>1. CASE r = s.res
    <3>1. s \notin Entries(script')
      BY <1>2, <1>3
    <3> QED BY <1>3, <2>1, <3>1
  <2>2. CASE r # s.res
    BY <1>2, <1>5, <1>7, <2>2 DEF Initialising
  <2> QED BY <2>1, <2>2
<1>8. ~bad'
  BY DEF Initialising
<1>9. script' = <<>> => Live'
  BY <1>2, <1>5, <1>6, <1>7, <1>8 DEF Live
<1>10. script' # <<>> => Initialising'
  BY <1>2, <1>5, <1>6, <1>7, <1>8 DEF Initialising
<1> QED BY <1>5, <1>9, <1>10

(* A step of init failed and the cleanup function is to run.               *)
LEMMA InitStops ==
  ASSUME LoadTypes, Initialising, driver' = driver, NEW k \in Nat,
         NEW s, s = Head(script), have' = [have EXCEPT ![s.res] = k], k < s.n,
         s.else = "cleanup", failed' = failed \cup {s.res}
  PROVE  LoadTypes' /\ Stacked' /\ Stopped(s)' /\ s \in Entries(Acquires)'
<1> DEFINE A == Entries(Acquires)
<1>1. AcquiresOK
  BY ScriptsOK DEF LoadTypes
<1>2. /\ s \in Entries(script) /\ Entries(script) \subseteq A
      /\ Entries(script) = {s} \cup Entries(Tail(script))
      /\ \A t \in Entries(Tail(script)) : Rank(s.res) < Rank(t.res)
  BY TailEntries DEF Initialising
<1>3. \A t \in A : t.res \in Loading!Resources /\ t.n \in Nat
  BY <1>1 DEF AcquiresOK
<1>4. \A r \in Loading!Resources : Rank(r) \in Nat
  BY Ranks
<1>5. s \in A
  BY <1>2
<1>6. /\ Acquires' = Acquires /\ LoadTypes'
      /\ have'[s.res] = k /\ \A r \in Loading!Resources : r # s.res => have'[r] = have[r]
  BY <1>3, <1>5 DEF LoadTypes, Acquires
<1>7. ASSUME NEW u \in A, Rank(u.res) < Rank(s.res) PROVE Taken(u)'
  <2>1. u.res # s.res
    BY <1>3, <1>4, <1>5, <1>7
  <2>2. u \notin Entries(script)
    BY <1>2, <1>3, <1>4, <1>5, <1>7
  <2>3. Taken(u) /\ have'[u.res] = have[u.res] /\ (failed # {} => failed' # {})
    BY <1>3, <1>6, <2>1, <2>2 DEF Initialising
  <2> QED BY <2>3 DEF Taken
<1>8. ASSUME NEW r \in Loading!Resources, r # s.res, have'[r] > 0
      PROVE  \E t \in A : t.res = r /\ have'[r] <= t.n /\ Rank(r) < Rank(s.res)
  <2>1. have[r] > 0 /\ have'[r] = have[r]
    BY <1>6, <1>8
  <2>2. PICK t \in A \ Entries(script) : t.res = r
    BY <2>1 DEF Initialising
  <2>3. Taken(t) /\ Rank(r) < Rank(s.res)
    BY <1>2, <2>2 DEF Initialising
  <2> QED BY <2>1, <2>2, <2>3 DEF Taken
<1>9. ASSUME NEW r \in Loading!Resources, have'[r] > 0
      PROVE  \E t \in A : t.res = r /\ have'[r] <= t.n
                /\ \A u \in A : Rank(u.res) < Rank(r) => Taken(u)'
  <2>1. CASE r = s.res
    <3>1. s.res = r /\ have'[r] <= s.n
      BY <1>3, <1>5, <1>6, <2>1
    <3> QED BY <1>5, <1>7, <2>1, <3>1
  <2>2. CASE r # s.res
    <3>1. PICK t \in A : t.res = r /\ have'[r] <= t.n /\ Rank(r) < Rank(s.res)
      BY <1>8, <1>9, <2>2
    <3>2. ASSUME NEW u \in A, Rank(u.res) < Rank(r) PROVE Taken(u)'
      <4>1. Rank(u.res) < Rank(s.res)
        BY <1>3, <1>4, <1>5, <3>1, <3>2
      <4> QED BY <1>7, <4>1
    <3> QED BY <3>1, <3>2
  <2> QED BY <2>1, <2>2
<1>10. Stacked'
  BY <1>6, <1>9 DEF Stacked
<1>11. ASSUME NEW u \in A, Rank(s.res) < Rank(u.res) PROVE have'[u.res] = 0
  <2>1. u.res # s.res /\ ~(Rank(u.res) < Rank(s.res)) /\ u.res \in Loading!Resources
    BY <1>3, <1>4, <1>5, <1>11
  <2>2. ~(have'[u.res] > 0) /\ have'[u.res] \in Nat
    BY <1>6, <1>8, <2>1 DEF LoadTypes
  <2> QED BY <2>2
<1>12. Stopped(s)'
  BY <1>6, <1>7, <1>11 DEF Stopped
<1> QED BY <1>5, <1>6, <1>10, <1>12

(* The first step of init failed, and there is nothing to undo.            *)
LEMMA InitReturns ==
  ASSUME LoadTypes, Initialising, driver' = driver, NEW s, s = Head(script),
         have' = [have EXCEPT ![s.res] = 0], s.else = "return"
  PROVE  LoadTypes' /\ Out'
<1>1. AcquiresOK
  BY ScriptsOK DEF LoadTypes
<1>2. s \in Entries(script) /\ Entries(script) \subseteq Entries(Acquires)
  BY TailEntries DEF Initialising
<1>3. s \in Entries(Acquires)
  BY <1>2
<1>4. s.res \in Loading!Resources /\ Rank(s.res) = 1
  BY <1>1, <1>3 DEF AcquiresOK
<1>5. ASSUME NEW r \in Loading!Resources PROVE have'[r] = 0
  <2>1. CASE r = s.res
    BY <2>1 DEF LoadTypes
  <2>2. CASE r # s.res
    <3>1. have'[r] = have[r] /\ have[r] \in Nat
      BY <1>4, <2>2 DEF LoadTypes
    <3>2. ASSUME have[r] > 0 PROVE FALSE
      <4>1. PICK u \in Entries(Acquires) \ Entries(script) : u.res = r
        BY <3>2 DEF Initialising
      <4>2. Rank(r) < Rank(s.res)
        BY <1>2, <4>1 DEF Initialising
      <4> QED BY <1>4, <4>2, Ranks
    <3> QED BY <3>1, <3>2
  <2> QED BY <2>1, <2>2
<1>6. LoadTypes'
  BY <1>4 DEF LoadTypes
<1>7. Loading!ReachableIsReady'
  BY <1>5 DEF Loading!ReachableIsReady, Loading!Resources
<1>8. \A r \in Loading!Released : ~(have'[r] > 0)
  BY <1>5 DEF Loading!Released
<1> QED BY <1>6, <1>7, <1>8 DEF Out

(* A step of cleanup releases what it is for, if that was set up.          *)
LEMMA CleanupMoves ==
  ASSUME LoadTypes, Undoing, bad => Excused, Loading!drop
  PROVE  /\ LoadTypes' /\ (bad' => Excused')
         /\ (script' = <<>> => Out') /\ (script' # <<>> => Undoing')
<1> DEFINE done(u) == u.if = "any" \/ have[u.if] > 0
<1>1. PICK u : u = Head(script)
  OBVIOUS
<1>2. ReleasesOK
  BY ScriptsOK DEF LoadTypes
<1>3. /\ u \in Entries(script) /\ Entries(script) \subseteq Entries(Releases)
      /\ Tail(script) \in Seq(Entries(Releases))
      /\ Entries(script) = {u} \cup Entries(Tail(script))
      /\ Tail(script) = <<>> => Entries(Tail(script)) = {}
      /\ Descending(Tail(script))
      /\ \A t \in Entries(Tail(script)) : Rank(t.res) < Rank(u.res)
  BY <1>1, TailEntries DEF Undoing
<1>4. u \in Entries(Releases) /\ u.res \in Loading!Released /\ u.res \in Loading!Resources
      /\ u.res # "ready" /\ Rank(u.res) \in 1 .. 7
  BY <1>2, <1>3, Ranks DEF ReleasesOK, Loading!Released
<1>5. /\ have' = IF ~done(u) THEN have
                 ELSE [have EXCEPT ![u.res] = Loading!Left(u),
                                   !["ready"] = IF u.res = "cdev" THEN 0 ELSE @]
      /\ bad' = (bad \/ (done(u) /\ Loading!NeverSetUp(u)))
      /\ script' = Tail(script) /\ driver' = driver /\ failed' = failed
      /\ Releases' = Releases
  BY <1>1 DEF Loading!drop, Releases
<1>6. Expected(u) /\ Loading!ReachableIsReady
  BY <1>3 DEF Undoing
<1>7. Loading!Left(u) \in Nat /\ (Loading!Left(u) = 0 \/ (u.res = "region" /\ driver = "scull"))
  BY <1>6 DEF Expected, Loading!Left, LoadTypes, Loading!Resources
<1>8. ~done(u) => have[u.res] = 0
  <2> SUFFICES ASSUME ~done(u) PROVE have[u.res] = 0
    OBVIOUS
  <2>1. have[u.res] \in Nat
    BY <1>4 DEF LoadTypes
  <2>2. \/ u.if = u.res
        \/ u.res = "cdev" /\ u.if = "memory" /\ driver \in {"scull_device", "scull_p"}
    BY <1>2, <1>4 DEF ReleasesOK
  <2>3. CASE u.if = u.res
    BY <2>1, <2>3
  <2>4. CASE u.res = "cdev" /\ u.if = "memory" /\ driver \in {"scull_device", "scull_p"}
    BY <1>6, <2>1, <2>4 DEF Loading!ReachableIsReady
  <2> QED BY <2>2, <2>3, <2>4
<1>9. /\ LoadTypes'
      /\ have'[u.res] = 0 \/ (u.res = "region" /\ driver = "scull")
      /\ \A r \in Loading!Released : r # u.res => have'[r] = have[r]
  <2>1. CASE ~done(u)
    BY <1>5, <1>8, <2>1 DEF LoadTypes
  <2>2. CASE done(u)
    <3>1. have' = [have EXCEPT ![u.res] = Loading!Left(u),
                               !["ready"] = IF u.res = "cdev" THEN 0 ELSE @]
      BY <1>5, <2>2
    <3>2. LoadTypes'
      BY <1>4, <1>5, <1>7, <3>1 DEF LoadTypes, Loading!Resources
    <3>3. have'[u.res] = Loading!Left(u)
      BY <1>4, <3>1 DEF LoadTypes
    <3>4. \A r \in Loading!Released : r # u.res => have'[r] = have[r]
      BY <1>4, <3>1 DEF LoadTypes, Loading!Released
    <3> QED BY <1>7, <3>2, <3>3, <3>4
  <2> QED BY <2>1, <2>2
<1>10. ASSUME NEW r \in Loading!Released, have'[r] > 0
       PROVE  (driver = "scull" /\ r = "region") \/ \E t \in Entries(script') : t.res = r
  <2>1. CASE r = u.res
    BY <1>9, <1>10, <2>1
  <2>2. CASE r # u.res
    <3>1. have[r] > 0
      BY <1>9, <1>10, <2>2
    <3>2. (driver = "scull" /\ r = "region") \/ \E t \in Entries(script) : t.res = r
      BY <3>1 DEF Undoing
    <3> QED BY <1>3, <1>5, <2>2, <3>2
  <2> QED BY <2>1, <2>2
<1>11. \A t \in Entries(script') : Rank(t.res) < Rank(u.res)
  BY <1>3, <1>5
<1>12. have'["cdev"] = 0 /\ have'["proc"] = 0
  <2>1. ASSUME NEW r \in {"cdev", "proc"} PROVE ~(have'[r] > 0)
    <3> SUFFICES ASSUME have'[r] > 0 PROVE FALSE
      OBVIOUS
    <3>1. PICK t \in Entries(script') : t.res = r
      BY <1>10 DEF Loading!Released, Loading!Resources
    <3> QED BY <1>4, <1>11, <3>1, Ranks
  <2>2. have'["cdev"] \in Nat /\ have'["proc"] \in Nat
    BY <1>9 DEF LoadTypes, Loading!Resources
  <2> QED BY <2>1, <2>2
<1>13. Loading!ReachableIsReady'
  BY <1>12 DEF Loading!ReachableIsReady
<1>14. ASSUME NEW t \in Entries(script') PROVE Expected(t)'
  <2>1. Expected(t)
    BY <1>3, <1>5 DEF Undoing
  <2>2. t.res # "cdev"
    BY <1>4, <1>11, Ranks
  <2>3. t.res = "region" => have'["region"] = have["region"]
    <3> SUFFICES ASSUME t.res = "region" PROVE have'["region"] = have["region"]
      OBVIOUS
    <3>1. u.res # "region"
      BY <1>4, <1>11, Ranks
    <3> QED BY <1>9, <3>1 DEF Loading!Released, Loading!Resources
  <2> QED BY <1>5, <2>1, <2>2, <2>3 DEF Expected
<1>15. bad' => Excused'
  <2> SUFFICES ASSUME done(u), Loading!NeverSetUp(u) PROVE Excused
    BY <1>5 DEF Excused
  <2>1. u.res = "cdev" /\ have["ready"] < u.n
    BY DEF Loading!NeverSetUp
  <2>2. driver \in {"scull_device", "scull_p"} => have["memory"] > 0
    BY <1>2, <1>4, <2>1 DEF ReleasesOK
  <2>3. have["ready"] \in Nat /\ have["memory"] \in Nat /\ u.n \in Nat
    BY <1>2, <1>4 DEF ReleasesOK, LoadTypes, Loading!Resources
  <2> QED BY <1>6, <2>1, <2>2, <2>3 DEF Expected, Excused
<1>16. script' = <<>> => Out'
  BY <1>3, <1>5, <1>10, <1>13 DEF Out
<1>17. script' # <<>> => Undoing'
  BY <1>3, <1>5, <1>10, <1>13, <1>14 DEF Undoing
<1> QED BY <1>9, <1>15, <1>16, <1>17

(* Every step of insmod, rmmod, init and cleanup keeps the invariant.      *)
LEMMA LoadSteps == LoadInv /\ Loading!Next => LoadInv'
<1> SUFFICES ASSUME LoadInv, Loading!Next PROVE LoadInv'
  OBVIOUS
<1>1. LoadTypes /\ (bad => Excused) /\ AcquiresOK
  <2>1. LoadTypes /\ (bad => Excused)
    BY DEF LoadInv
  <2> QED BY <2>1, ScriptsOK DEF LoadTypes
<1>2. ASSUME Loading!insmod PROVE LoadInv'
  <2>1. /\ mpc' = "init" /\ script' = Acquires' /\ Acquires' = Acquires /\ driver' = driver
        /\ have' = [r \in Loading!Resources |-> 0] /\ ~bad'
    BY <1>2 DEF Loading!insmod, Acquires
  <2>2. LoadTypes'
    BY <1>1, <2>1 DEF LoadTypes
  <2>3. Initialising'
    BY <1>1, <2>1 DEF Initialising, AcquiresOK
  <2> QED BY <2>1, <2>2, <2>3 DEF LoadInv
<1>3. ASSUME Loading!take PROVE LoadInv'
  <2>1. PICK s : s = Head(script)
    OBVIOUS
  <2>2. /\ mpc = "init" /\ have' = [have EXCEPT ![s.res] = s.n] /\ script' = Tail(script)
        /\ mpc' = (IF script' = <<>> THEN "live" ELSE "init")
        /\ driver' = driver /\ failed' = failed /\ bad' = bad
    BY <1>3, <2>1 DEF Loading!take
  <2>3. Initialising
    BY <2>2 DEF LoadInv
  <2>4. s \in Entries(script) /\ Entries(script) \subseteq Entries(Acquires)
    BY <2>1, <2>3, TailEntries DEF Initialising
  <2>5. s.n \in Nat /\ s.n <= s.n
    BY <1>1, <2>4 DEF AcquiresOK
  <2>6. LoadTypes' /\ (script' = <<>> => Live') /\ (script' # <<>> => Initialising')
    BY <1>1, <2>1, <2>2, <2>3, <2>5, InitMoves
  <2>7. bad' => Excused'
    BY <1>1, <2>2 DEF Excused
  <2> QED BY <2>2, <2>6, <2>7 DEF LoadInv
<1>4. ASSUME NEW k \in 0 .. 11, Loading!take_fails(k) PROVE LoadInv'
  <2>1. PICK s : s = Head(script)
    OBVIOUS
  <2>2. /\ mpc = "init" /\ k < s.n /\ have' = [have EXCEPT ![s.res] = k]
        /\ failed' = failed \cup {s.res} /\ driver' = driver /\ bad' = bad
        /\ \/ s.else = "return" /\ k = 0 /\ mpc' = "out"
           \/ /\ s.else = "cleanup"
              /\ mpc' = "cleanup" /\ script' = Loading!Modules[driver].cleanup
           \/ /\ s.else = "continue"
              /\ script' = Tail(script)
              /\ mpc' = IF Tail(script) = <<>> THEN "live" ELSE "init"
    BY <1>4, <2>1 DEF Loading!take_fails
  <2>3. Initialising /\ ~bad'
    BY <2>2 DEF LoadInv, Initialising
  <2>4. s \in Entries(script) /\ Entries(script) \subseteq Entries(Acquires)
    BY <2>1, <2>3, TailEntries DEF Initialising
  <2>5. k \in Nat /\ k <= s.n
    BY <1>1, <2>2, <2>4 DEF AcquiresOK
  <2>6. CASE s.else = "return" /\ k = 0 /\ mpc' = "out"
    <3>1. LoadTypes' /\ Out'
      BY <1>1, <2>1, <2>2, <2>3, <2>6, InitReturns
    <3> QED BY <2>3, <2>6, <3>1 DEF LoadInv
  <2>7. CASE /\ s.else = "cleanup"
             /\ mpc' = "cleanup" /\ script' = Loading!Modules[driver].cleanup
    <3>1. LoadTypes' /\ Stacked' /\ Stopped(s)' /\ s \in Entries(Acquires)'
      BY <1>1, <2>1, <2>2, <2>3, <2>5, <2>7, InitStops
    <3>2. script' = Releases'
      BY <2>2, <2>7 DEF Releases
    <3>3. Entered'
      BY <3>1, <3>2 DEF Entered
    <3>4. Undoing'
      BY <3>3, UndoStarts, PTL
    <3> QED BY <2>3, <2>7, <3>1, <3>4 DEF LoadInv
  <2>8. CASE /\ s.else = "continue"
             /\ script' = Tail(script)
             /\ mpc' = IF Tail(script) = <<>> THEN "live" ELSE "init"
    <3>1. LoadTypes' /\ (script' = <<>> => Live') /\ (script' # <<>> => Initialising')
      BY <1>1, <2>1, <2>2, <2>3, <2>5, <2>8, InitMoves
    <3> QED BY <2>3, <2>8, <3>1 DEF LoadInv
  <2> QED BY <2>2, <2>6, <2>7, <2>8
<1>5. ASSUME Loading!rmmod PROVE LoadInv'
  <2>1. /\ mpc = "live" /\ mpc' = "cleanup" /\ script' = Loading!Modules[driver].cleanup
        /\ UNCHANGED <<driver, have, failed, bad>>
    BY <1>5 DEF Loading!rmmod
  <2>2. Live /\ Stacked
    BY <1>1, <2>1, InitStacked DEF LoadInv
  <2>3. Acquires' = Acquires /\ script' = Releases' /\ \A t : Taken(t) => Taken(t)'
    BY <2>1 DEF Acquires, Releases, Taken
  <2>4. LoadTypes' /\ ~bad' /\ Complete' /\ Stacked'
    BY <1>1, <2>1, <2>2, <2>3 DEF LoadTypes, Live, Complete, Stacked
  <2>5. Entered'
    BY <2>3, <2>4 DEF Entered
  <2>6. Undoing'
    BY <2>5, UndoStarts, PTL
  <2> QED BY <2>1, <2>4, <2>6 DEF LoadInv
<1>6. ASSUME Loading!drop PROVE LoadInv'
  <2>1. mpc = "cleanup" /\ mpc' = IF script' = <<>> THEN "out" ELSE "cleanup"
    BY <1>6 DEF Loading!drop
  <2>2. Undoing
    BY <2>1 DEF LoadInv
  <2>3. /\ LoadTypes' /\ (bad' => Excused')
        /\ (script' = <<>> => Out') /\ (script' # <<>> => Undoing')
    BY <1>1, <1>6, <2>2, CleanupMoves
  <2> QED BY <2>1, <2>3 DEF LoadInv
<1> QED BY <1>2, <1>3, <1>4, <1>5, <1>6 DEF Loading!Next

(* It says what Load promises of a module,                                 *)
LEMMA LoadShows == LoadInv => Loading!NothingLeaked /\ Loading!ReachableIsReady
<1> SUFFICES ASSUME LoadInv PROVE Loading!NothingLeaked /\ Loading!ReachableIsReady
  OBVIOUS
<1>1. Loading!ReachableIsReady
  BY InitStacked, StackedReady DEF LoadInv, Undoing, Out
<1>2. \A r \in Loading!Released : have[r] \in Nat
  BY DEF LoadInv, LoadTypes, Loading!Released
<1>3. Loading!NothingLeaked
  BY <1>2 DEF LoadInv, Out, Excused, Loading!NothingLeaked
<1> QED BY <1>1, <1>3

(* A behaviour is one of sbull or one of another module.                   *)
AllInv ==
  /\ driver = "sbull" => NoLoading
  /\ driver # "sbull" => LoadInv

(* Whatever fails while a module is loaded and wherever its cleanup is     *)
(* entered, the init and cleanup functions take and give back as AllInv    *)
(* says.                                                                   *)
THEOREM LoadingInOrder == AllSpec => []AllInv
<1>1. AllInit => AllInv
  <2>1. ASSUME NoLoading PROVE AllInv
    BY <2>1 DEF AllInv, NoLoading
  <2>2. ASSUME Loading!Init PROVE AllInv
    <3>1. /\ driver \in DOMAIN Loading!Modules /\ mpc = "out" /\ ~bad
          /\ have = [r \in Loading!Resources |-> 0]
      BY <2>2 DEF Loading!Init
    <3>2. driver # "sbull"
      BY <3>1 DEF Loading!Modules
    <3>3. LoadTypes
      BY <3>1 DEF LoadTypes
    <3>4. Out
      BY <3>1 DEF Out, Loading!ReachableIsReady, Loading!Released, Loading!Resources
    <3> QED BY <3>1, <3>2, <3>3, <3>4 DEF AllInv, LoadInv
  <2> QED BY <2>1, <2>2 DEF AllInit
<1>2. ASSUME AllInv, driver # "sbull", Loading!Next PROVE AllInv'
  <2>1. LoadInv'
    BY <1>2, LoadSteps DEF AllInv
  <2>2. driver' = driver
    BY <1>2 DEF Loading!Next, Loading!insmod, Loading!take, Loading!take_fails, Loading!rmmod, Loading!drop
  <2> QED BY <1>2, <2>1, <2>2 DEF AllInv
<1>3. ASSUME AllInv, UNCHANGED loading PROVE AllInv'
  <2>1. /\ driver' = driver /\ mpc' = mpc /\ script' = script /\ have' = have
        /\ failed' = failed /\ bad' = bad
    BY <1>3 DEF loading
  <2>2. CASE driver = "sbull"
    BY <1>3, <2>1, <2>2 DEF AllInv, NoLoading
  <2>3. CASE driver # "sbull"
    <3>1. Acquires' = Acquires /\ Releases' = Releases
      BY <2>1 DEF Acquires, Releases
    <3>2. \A t : (Taken(t)' <=> Taken(t)) /\ (Expected(t)' <=> Expected(t))
      BY <2>1 DEF Taken, Expected
    <3>3. /\ LoadTypes' <=> LoadTypes
          /\ Excused' <=> Excused
          /\ Loading!ReachableIsReady' <=> Loading!ReachableIsReady
      BY <2>1 DEF LoadTypes, Excused, Loading!ReachableIsReady
    <3>4. (Initialising => Initialising') /\ (Live => Live')
      BY <2>1, <3>1, <3>2 DEF Initialising, Live
    <3>5. (Undoing => Undoing') /\ (Out => Out')
      BY <2>1, <3>1, <3>2, <3>3 DEF Undoing, Out
    <3>6. LoadInv
      BY <1>3, <2>3 DEF AllInv
    <3> QED BY <2>1, <2>3, <3>3, <3>4, <3>5, <3>6 DEF AllInv, LoadInv
  <2> QED BY <2>2, <2>3
<1>4. AllInv /\ [AllNext]_allvars => AllInv'
  BY <1>2, <1>3 DEF AllNext, allvars
<1> QED BY <1>1, <1>4, PTL DEF AllSpec

(* and that holds, with nothing to load, for the RAM disk.                 *)
LEMMA AllShows == AllInv => Loading!NothingLeaked /\ Loading!ReachableIsReady
<1>1. ASSUME NoLoading PROVE Loading!NothingLeaked /\ Loading!ReachableIsReady
  <2>1. /\ \A r \in Loading!Resources : have[r] = 0
        /\ ~bad /\ driver = "sbull"
    BY <1>1 DEF NoLoading
  <2> QED BY <2>1 DEF Loading!NothingLeaked, Loading!ReachableIsReady, Loading!Released, Loading!Resources
<1> QED BY <1>1, LoadShows DEF AllInv

(* A module that is out holds nothing, the RAM disk or any other, whatever *)
(* failed while it was loaded: with the exceptions Load names.             *)
THEOREM EverythingReleased == AllSpec => []NothingLeftBehind
<1>1. AllInv /\ NothingLeaked => NothingLeftBehind
  BY AllShows DEF NothingLeftBehind
<1> QED BY <1>1, DiskReleased, LoadingInOrder, PTL

(* Nothing is released under what uses it, and what a user can reach is    *)
(* set up, at every step of loading, of a failing load and of unloading.   *)
THEOREM EverythingSetUp == AllSpec => []SetUpInOrder
<1>1. AllInv /\ ReleasedInOrder => SetUpInOrder
  BY AllShows DEF SetUpInOrder
<1> QED BY <1>1, DiskReleased, LoadingInOrder, PTL
=============================================================================
