---------------------------- MODULE ProtocolRelease ----------------------------
(***************************************************************************)
(* The life of one protocol version: upload of a package or of source, its *)
(* files and its row, publication, installation from a signed catalogue,   *)
(* and the private market (submission, review by another user, withdrawal, *)
(* distribution). Uploads and reviews of the version run concurrently; the *)
(* process may end between any two steps and leave files behind.           *)
(***************************************************************************)
EXTENDS Naturals, Sequences, FiniteSets

CONSTANTS
    Uploads,        \* HTTP requests that upload or install the version
    Contents,       \* packages that claim this id and version
    Reviewers,      \* users; the first argument of a submission or a review
    Reviewing,      \* HTTP requests that decide on the submission
    PNil

ASSUME ReleaseAssumption == PNil \notin Contents

VARIABLES
    release,        \* row: PNil or [status, content, files], files: it has an artifact
    file,           \* package.zip, artifact and samples.json: whose content, or PNil
    up,             \* up[u]: step, content, publish, source, and the files to remove
    slot,           \* protocolbuild.Slots: the upload that compiles, or PNil
    catalog,        \* content of the version in the signed remote catalogue, or PNil
    confirmed,      \* history: contents an administrator confirmed in that catalogue
    lostReply,      \* history: CreateProtocolRelease was executed but reported an error
    market,         \* PNil or [status, gen, by, content, reviews]
    review,         \* review[w]: decision in progress
    served          \* history: <<content, market entry>> handed to other organisations

pvars == <<release, file, up, slot, catalog, confirmed, lostReply, market, review, served>>

Files == {"package", "worker", "samples"}
UpIdle == [at |-> "idle", c |-> PNil, publish |-> FALSE, catalog |-> FALSE, rm |-> <<>>]
ReviewIdle == [at |-> "idle", actor |-> PNil, decision |-> PNil, gen |-> 0]

ReleaseInit ==
    /\ release = PNil /\ file = [f \in Files |-> PNil]
    /\ up = [u \in Uploads |-> UpIdle] /\ slot = PNil
    /\ catalog \in Contents \cup {PNil} /\ confirmed = {} /\ lostReply = FALSE
    /\ market = PNil /\ review = [w \in Reviewing |-> ReviewIdle] /\ served = {}

marketVars == <<market, review, served>>

\* A prebuilt package whose ZIP, manifest, platform and product are acceptable.
uploadProtocolPackageV2(u, c, publish) ==
    /\ up[u].at = "idle"
    /\ up' = [up EXCEPT ![u] = [UpIdle EXCEPT !.at = "check", !.c = c, !.publish = publish]]
    /\ UNCHANGED <<release, file, slot, catalog, confirmed, lostReply, marketVars>>

\* Source is compiled while the only compiler slot is held (429 otherwise); the slot
\* is held until the request ends.
uploadProtocolSource(u, c, publish) ==
    /\ up[u].at = "idle" /\ slot = PNil /\ slot' = u
    /\ up' = [up EXCEPT ![u] = [UpIdle EXCEPT !.at = "check", !.c = c, !.publish = publish]]
    /\ UNCHANGED <<release, file, catalog, confirmed, lostReply, marketVars>>

\* The request carries the digest of the catalogue the administrator saw; the fetched
\* catalogue must have the same digest, and the source the hash of its entry.
BadInstallCatalogProtocol(u, seen) ==
    /\ up[u].at = "idle" /\ slot = PNil /\ slot' = u
    /\ release = PNil /\ catalog # PNil
    /\ confirmed' = confirmed \cup {seen}
    /\ up' = [up EXCEPT ![u] = [UpIdle EXCEPT !.at = "check", !.c = catalog, !.catalog = TRUE]]
    /\ UNCHANGED <<release, file, catalog, lostReply, marketVars>>
installCatalogProtocol(u, seen) ==
    /\ up[u].at = "idle" /\ slot = PNil /\ slot' = u
    /\ release = PNil /\ catalog # PNil /\ seen = catalog
    /\ confirmed' = confirmed \cup {seen}
    /\ up' = [up EXCEPT ![u] = [UpIdle EXCEPT !.at = "check", !.c = catalog, !.catalog = TRUE]]
    /\ UNCHANGED <<release, file, catalog, lostReply, marketVars>>

\* The remote organisation approves, replaces or withdraws the version.
CatalogChanges ==
    /\ catalog' \in (Contents \cup {PNil}) \ {catalog}
    /\ UNCHANGED <<release, file, up, slot, confirmed, lostReply, marketVars>>

-----------------------------------------------------------------------------
(* installProtocolPackageV2. *)

Goto(u, at) == up' = [up EXCEPT ![u].at = at]
FailWith(u, rm) == up' = [up EXCEPT ![u].at = "cleanup", ![u].rm = rm]
installRest == <<slot, catalog, confirmed, lostReply, marketVars>>

CheckVersion(u) ==
    /\ up[u].at = "check"
    /\ IF release # PNil THEN FailWith(u, <<>>) ELSE Goto(u, "package")
    /\ UNCHANGED <<release, file, installRest>>

\* O_EXCL: a file that exists is never overwritten.
BadWriteExclusiveFile(u, f, next, rm) ==
    /\ file' = [file EXCEPT ![f] = up[u].c] /\ Goto(u, next)
writeExclusiveFile(u, f, next, rm) ==
    \/ file[f] = PNil /\ file' = [file EXCEPT ![f] = up[u].c] /\ Goto(u, next)
    \/ FailWith(u, rm) /\ UNCHANGED file            \* it exists, or the disk refuses

StorePackage(u) ==
    /\ up[u].at = "package" /\ writeExclusiveFile(u, "package", "worker", <<>>)
    /\ UNCHANGED <<release, installRest>>
StoreWorker(u) ==
    /\ up[u].at = "worker" /\ writeExclusiveFile(u, "worker", "cases", <<"package">>)
    /\ UNCHANGED <<release, installRest>>

\* The regression cases of the package are run with its worker.
validateProtocolPackageCases(u) ==
    /\ up[u].at = "cases"
    /\ Goto(u, "variants") \/ FailWith(u, <<"worker", "package">>)
    /\ UNCHANGED <<release, file, installRest>>

\* Binaries of other platforms and the samples; a partial set is removed again.
storeProtocolVariants(u) ==
    /\ up[u].at = "variants"
    /\ writeExclusiveFile(u, "samples", "create", <<"worker", "package">>)
    /\ UNCHANGED <<release, installRest>>

\* INSERT without ON CONFLICT. On an error, reported or not, the files are removed.
CreateProtocolRelease(u) ==
    LET row == [status |-> IF up[u].publish THEN "PUBLISHED" ELSE "VALIDATED",
                content |-> up[u].c, files |-> TRUE, catalog |-> up[u].catalog]
        undo == <<"worker", "package", "samples">> IN
    /\ up[u].at = "create"
    /\ \/ release = PNil /\ release' = row /\ FailWith(u, <<>>) /\ UNCHANGED lostReply
       \/ FailWith(u, undo) /\ UNCHANGED <<release, lostReply>>
       \/ release = PNil /\ release' = row /\ FailWith(u, undo) /\ lostReply' = TRUE
    /\ UNCHANGED <<file, slot, catalog, confirmed, marketVars>>

\* Removal of the files listed, one after the other; then the request ends.
Cleanup(u) ==
    /\ up[u].at = "cleanup"
    /\ IF up[u].rm = <<>>
       THEN /\ up' = [up EXCEPT ![u].at = "done"] /\ UNCHANGED file
            /\ slot' = IF slot = u THEN PNil ELSE slot
       ELSE /\ file' = [file EXCEPT ![Head(up[u].rm)] = PNil]
            /\ up' = [up EXCEPT ![u].rm = Tail(@)] /\ UNCHANGED slot
    /\ UNCHANGED <<release, catalog, confirmed, lostReply, marketVars>>

\* A release of a configurable parser has a row and no files.
createProtocolReleaseV2(c) ==
    /\ release = PNil
    /\ release' = [status |-> "DRAFT", content |-> c, files |-> FALSE, catalog |-> FALSE]
    /\ UNCHANGED <<file, up, slot, catalog, confirmed, lostReply, marketVars>>

\* One statement under FOR UPDATE; nothing in the program revokes a release.
publishProtocolReleaseV2 ==
    /\ release # PNil /\ release.status # "PUBLISHED"
    /\ release' = [release EXCEPT !.status = "PUBLISHED"]
    /\ UNCHANGED <<file, up, slot, catalog, confirmed, lostReply, marketVars>>

EndOfProcess ==
    /\ \E u \in Uploads : up[u].at \notin {"idle", "done"}
    /\ up' = [u \in Uploads |-> IF up[u].at = "idle" THEN up[u] ELSE [up[u] EXCEPT !.at = "done"]]
    /\ slot' = PNil
    /\ review' = [w \in Reviewing |-> IF review[w].at = "idle" THEN review[w]
                                      ELSE [review[w] EXCEPT !.at = "done"]]
    /\ UNCHANGED <<release, file, catalog, confirmed, lostReply, market, served>>

-----------------------------------------------------------------------------
(* The private market. *)

uploadVars == <<release, file, up, slot, catalog, confirmed, lostReply>>

\* readProtocolSourceV2: the package on disk has the hash recorded in the row.
SourceReadable == release # PNil /\ release.files /\ file["package"] = release.content

marketSubmit(n) ==
    /\ SourceReadable /\ market = PNil
    /\ market' = [status |-> "SUBMITTED", gen |-> 1, by |-> n, content |-> release.content,
                  reviews |-> <<>>]
    /\ UNCHANGED <<uploadVars, review, served>>

\* model.ProtocolMarketEntry.Review
ReviewAllowed(actor, decision, gen) ==
    /\ market.gen = gen
    /\ IF decision = "WITHDRAWN" THEN market.status \in {"APPROVED", "SUBMITTED"}
       ELSE market.status = "SUBMITTED" /\ market.by # actor

marketSourceMatches == SourceReadable /\ release.content = market.content

\* The handler reads the entry, checks the decision and, for an approval, the source.
marketReview(w, actor, decision) ==
    /\ review[w].at = "idle" /\ market # PNil
    /\ ReviewAllowed(actor, decision, market.gen)
    /\ decision = "APPROVED" => marketSourceMatches
    /\ review' = [review EXCEPT ![w] = [at |-> "save", actor |-> actor, decision |-> decision,
                                        gen |-> market.gen]]
    /\ UNCHANGED <<uploadVars, market, served>>

\* The transaction applies the decision to the row of that moment, with the same checks.
BadReviewProtocolMarket(w) ==
    /\ review[w].at = "save"
    /\ market' = [market EXCEPT !.status = review[w].decision, !.gen = @ + 1,
                                !.reviews = Append(@, <<review[w].actor, review[w].decision>>)]
    /\ review' = [review EXCEPT ![w].at = "done"]
    /\ UNCHANGED <<uploadVars, served>>
ReviewProtocolMarket(w) ==
    /\ review[w].at = "save"
    /\ IF ReviewAllowed(review[w].actor, review[w].decision, review[w].gen)
       THEN market' = [market EXCEPT !.status = review[w].decision, !.gen = @ + 1,
                                     !.reviews = Append(@, <<review[w].actor, review[w].decision>>)]
       ELSE UNCHANGED market
    /\ review' = [review EXCEPT ![w].at = "done"]
    /\ UNCHANGED <<uploadVars, served>>

\* A reader of another organisation downloads the source.
marketDistribution ==
    /\ market # PNil /\ market.status = "APPROVED" /\ marketSourceMatches
    /\ served' = served \cup {<<file["package"], market>>}
    /\ UNCHANGED <<uploadVars, market, review>>

ReleaseNext ==
    \/ \E u \in Uploads, c \in Contents, publish \in BOOLEAN :
          uploadProtocolPackageV2(u, c, publish) \/ uploadProtocolSource(u, c, publish)
    \/ \E u \in Uploads, seen \in Contents : installCatalogProtocol(u, seen)
    \/ \E u \in Uploads : CheckVersion(u) \/ StorePackage(u) \/ StoreWorker(u)
          \/ validateProtocolPackageCases(u) \/ storeProtocolVariants(u)
          \/ CreateProtocolRelease(u) \/ Cleanup(u)
    \/ CatalogChanges \/ publishProtocolReleaseV2 \/ EndOfProcess
    \/ \E c \in Contents : createProtocolReleaseV2(c)
    \/ \E n \in Reviewers : marketSubmit(n)
    \/ \E w \in Reviewing, n \in Reviewers, d \in {"APPROVED", "REJECTED", "WITHDRAWN"} :
          marketReview(w, n, d)
    \/ \E w \in Reviewing : ReviewProtocolMarket(w)
    \/ marketDistribution

ReleaseSpec == ReleaseInit /\ [][ReleaseNext]_pvars

-----------------------------------------------------------------------------
\* A release that has an artifact keeps exactly the files it was validated with,
\* whatever uploads of the same version start, fail, clean up or die beside it. The
\* one exception: the row was created but its creation was reported as failed.
ReleaseKeepsItsFiles ==
    release # PNil /\ release.files /\ ~lostReply => \A f \in Files : file[f] = release.content

\* What is installed from the catalogue is what an administrator confirmed, although
\* the catalogue may change between the confirmation and the installation.
InstalledWasConfirmed ==
    release # PNil /\ release.catalog => release.content \in confirmed

\* A version is decided on once, by somebody other than its author, and only what was
\* submitted and approved leaves the organisation, although two reviewers may decide
\* at the same time.
OneReviewByAnother ==
    /\ market # PNil =>
         /\ \A k \in 1 .. Len(market.reviews) :
               market.reviews[k][2] = "APPROVED" => market.reviews[k][1] # market.by
         /\ Cardinality({k \in 1 .. Len(market.reviews) : market.reviews[k][2] # "WITHDRAWN"}) <= 1
         /\ market.reviews # <<>> => market.reviews[Len(market.reviews)][2] = market.status
         /\ Len(market.reviews) = 2 => market.status = "WITHDRAWN"
    /\ \A x \in served : x[2].status = "APPROVED" /\ x[1] = x[2].content

\* What a version's row says is true: its files are those that were validated, they
\* were confirmed when they came from the catalogue, and they leave only as reviewed.
ReleaseIsSound == ReleaseKeepsItsFiles /\ InstalledWasConfirmed /\ OneReviewByAnother

=============================================================================
