------------------------ MODULE MCApplyAuthorization ------------------------
(* Values for model-checking ApplyAuthorization: a source stage reads two sources, *)
(* a transform joins them, and a sink publishes.                                   *)
EXTENDS ApplyAuthorization

Request(class, resource, max) ==
  [class |-> class, resource |-> resource, max |-> max, verified |-> class = "public.write"]

ReadRequests == {Request("artifact.read", source, 2) : source \in {"A", "B"}}
JoinRequests == {Request("artifact.write", "store", 2), Request("state.write", "state", 1)}
PublishRequests == {Request("canonical.write", "db", 2), Request("public.write", "site", 1)}

Reserve(cpu, bytes, watermark) ==
  [group |-> "g", cpu |-> cpu, bytes |-> bytes, watermark |-> watermark]

Binding(source, port) == [policy |-> source, ports |-> {port}, class |-> "artifact.read",
                          resource |-> source, artifact |-> "raw"]

\* The stages; the references of the transform vary.
Definition(refs) ==
  [profile |-> "apizza", required |-> {"publish"}, optional |-> {},
   stages |-> <<
     [id |-> "read", uses |-> "reader", inputs |-> << >>, requests |-> ReadRequests,
      bindings |-> {Binding("A", "a"), Binding("B", "b")}, reserve |-> Reserve(1, 0, 1)],
     [id |-> "join", uses |-> "joiner", inputs |-> refs, requests |-> JoinRequests,
      bindings |-> {}, reserve |-> Reserve(1, 1, 2)],
     [id |-> "publish", uses |-> "publisher", inputs |-> [m |-> <<"join", "m">>],
      requests |-> PublishRequests, bindings |-> {}, reserve |-> Reserve(1, 0, 1)]>>]

Tile == [required |-> TRUE, format |-> "tile"]
Merged == [required |-> TRUE, format |-> "merged"]

Catalog ==
  [reader |-> [adapter |-> "files", inputs |-> << >>, outputs |-> [a |-> Tile, b |-> Tile],
               effects |-> {"artifact.read"}, receipt |-> FALSE],
   joiner |-> [adapter |-> Nothing, inputs |-> [a |-> Tile, b |-> Tile], outputs |-> [m |-> Merged],
               effects |-> {"artifact.write", "state.write"}, receipt |-> FALSE],
   publisher |-> [adapter |-> Nothing, inputs |-> [m |-> Merged], outputs |-> << >>,
                  effects |-> {"canonical.write", "public.write"}, receipt |-> TRUE]]

Allowed == ({"read"} \X ReadRequests) \cup ({"join"} \X JoinRequests)
             \cup ({"publish"} \X PublishRequests)

Policy(approved, redistribution, days, ceiling) ==
  [adapter |-> "files", approved |-> approved, format |-> "tile",
   redistribution |-> redistribution, days |-> days, ceiling |-> [raw |-> ceiling]]

Profile(digest, A, B) ==
  [id |-> "apizza", digest |-> digest, enabled |-> TRUE, lockDigest |-> Catalog, contract |-> "v1",
   sources |-> [A |-> A, B |-> B], effectPolicy |-> Allowed]

Host == [groups |-> [g |-> 2], cpu |-> 2, watermark |-> 1]

Deployed(definition, profile, grants) ==
  [definition |-> definition, catalog |-> Catalog, profile |-> profile, host |-> Host,
   deployment |-> [enabled |-> TRUE, profile |-> "apizza", definitionDigest |-> definition,
                   profileDigest |-> profile.digest, hostDigest |-> Host, lockDigest |-> Catalog,
                   contract |-> "v1", secrets |-> "vault", grants |-> grants]]

InOrder == Definition([a |-> <<"read", "a">>, b |-> <<"read", "b">>])
Forward == [InOrder EXCEPT !.stages = <<@[2], @[1], @[3]>>]

OneDay == Policy(TRUE, "approved", 1, 1)
TwoDays == Policy(TRUE, "approved", 2, 2)
Private == Policy(TRUE, "forbidden", 2, 2)

\* Two profiles, of which the second has withdrawn the redistribution of a source; and
\* what is not ready: a stage before its producer, a policy that is not approved or is too
\* long, a stage that asks for more than its policy allows.
SomeInputs ==
  [first |-> Deployed(InOrder, Profile(1, OneDay, TwoDays), Allowed),
   withdrawn |-> Deployed(InOrder, Profile(2, OneDay, Private), Allowed),
   forward |-> Deployed(Forward, Profile(1, OneDay, TwoDays), Allowed),
   pending |-> Deployed(InOrder, Profile(3, Policy(FALSE, "approved", 1, 1), TwoDays), Allowed),
   long |-> Deployed(InOrder, Profile(4, Policy(TRUE, "approved", 2, 1), TwoDays), Allowed),
   unallowed |-> Deployed(InOrder, [Profile(5, OneDay, TwoDays) EXCEPT
                                      !.effectPolicy = {g \in @ : g[1] # "join"}], Allowed)]

\* A sink's records may be too many for its grant.
Counts == [kind \in {"a", "b", "m", "state", "artifact.read", "network.read"} |->
              IF kind = "m" THEN {1, 2} ELSE {1}]
=============================================================================
