------------------------- MODULE MCAccessAndContent -------------------------
(***************************************************************************)
(* Who may do what, and what they leave behind: memberships, bearer        *)
(* tokens, single sign-on and short links; files with the meetings they    *)
(* hang on, pictures, documentation in git, repositories, wiki pages,      *)
(* customers and comments; the geolocation database, request budgets and   *)
(* login delays.                                                           *)
(*                                                                         *)
(* The components share no state, so that their interleavings add nothing  *)
(* to what each can do alone: scene names the one that runs.  Files run    *)
(* with the collector, and once more with the meetings they hang on.       *)
(***************************************************************************)
EXTENDS Meetings, Pictures, Membership, ShortLinks, Oidc, Docs, Repositories, Tokens, Wiki, Annotations,
        GeoLookup, Throttle

VARIABLE scene

CONSTANTS a1, a2      \* accounts

\* Both subjects of the provider carry the address of the first account.
EmailDef == [s \in Subjects |-> a1]

\* Of the initial states of a component that does not run, one will do.
Parked ==
    /\ scene # "meetings" => meeting = NoMeeting
    /\ scene # "members" => home.vis = "private" /\ \A a \in Superadmins : member[a] = NoRole
    /\ scene # "links" => \A S \in {Projects, Boards} :
         LET t == CHOOSE x \in S : TRUE IN named[t].st = "live" /\ named[t].name = CHOOSE x \in Names : TRUE
    /\ scene # "oidc" => account[a1].there /\ session = {} /\ \A s \in Subjects : ident[s] = NoOne
    /\ scene # "tokens" => space = {}
    /\ scene # "docs" => ~writekey /\ remote = <<CHOOSE t \in Texts : TRUE>>
    /\ scene # "geo" => ~setting.on /\ setting.variant = CHOOSE v \in Variants : TRUE
    /\ (scene # "delay") = (failed = << >>)

AccessInit ==
    /\ MeetingInit /\ PictureInit /\ MemberInit /\ LinkInit /\ OidcInit
    /\ DocsInit /\ RepoInit /\ TokenInit /\ WikiInit /\ AnnInit /\ GeoInit /\ ThrottleInit
    /\ scene \in {"files", "meetings", "pictures", "members", "links", "oidc", "docs",
                 "repositories", "tokens", "wiki", "annotations", "geo", "budget", "delay"}
    /\ Parked

AccessNext ==
    /\ UNCHANGED scene
    /\ \/ /\ scene = "files" /\ FileNext
          /\ UNCHANGED <<meetingVars, pictureVars, memberVars, linkVars, oidcVars,
                        docVars, repoVars, tokenVars, wikiVars, annVars, geoVars, throttleVars>>
       \/ /\ scene = "meetings" /\ MeetingNext
          /\ UNCHANGED <<pictureVars, memberVars, linkVars, oidcVars, docVars,
                        repoVars, tokenVars, wikiVars, annVars, geoVars, throttleVars>>
       \/ /\ scene = "pictures" /\ PictureNext
          /\ UNCHANGED <<allMeetingVars, memberVars, linkVars, oidcVars, docVars,
                        repoVars, tokenVars, wikiVars, annVars, geoVars, throttleVars>>
       \/ /\ scene = "members" /\ MemberNext
          /\ UNCHANGED <<allMeetingVars, pictureVars, linkVars, oidcVars, docVars,
                        repoVars, tokenVars, wikiVars, annVars, geoVars, throttleVars>>
       \/ /\ scene = "links" /\ LinkNext
          /\ UNCHANGED <<allMeetingVars, pictureVars, memberVars, oidcVars, docVars,
                        repoVars, tokenVars, wikiVars, annVars, geoVars, throttleVars>>
       \/ /\ scene = "oidc" /\ OidcNext
          /\ UNCHANGED <<allMeetingVars, pictureVars, memberVars, linkVars, docVars,
                        repoVars, tokenVars, wikiVars, annVars, geoVars, throttleVars>>
       \/ /\ scene = "docs" /\ DocsNext
          /\ UNCHANGED <<allMeetingVars, pictureVars, memberVars, linkVars, oidcVars,
                        repoVars, tokenVars, wikiVars, annVars, geoVars, throttleVars>>
       \/ /\ scene = "repositories" /\ RepoNext
          /\ UNCHANGED <<allMeetingVars, pictureVars, memberVars, linkVars, oidcVars,
                        docVars, tokenVars, wikiVars, annVars, geoVars, throttleVars>>
       \/ /\ scene = "tokens" /\ TokenNext
          /\ UNCHANGED <<allMeetingVars, pictureVars, memberVars, linkVars, oidcVars,
                        docVars, repoVars, wikiVars, annVars, geoVars, throttleVars>>
       \/ /\ scene = "wiki" /\ WikiNext
          /\ UNCHANGED <<allMeetingVars, pictureVars, memberVars, linkVars, oidcVars,
                        docVars, repoVars, tokenVars, annVars, geoVars, throttleVars>>
       \/ /\ scene = "annotations" /\ AnnNext
          /\ UNCHANGED <<allMeetingVars, pictureVars, memberVars, linkVars, oidcVars,
                        docVars, repoVars, tokenVars, wikiVars, geoVars, throttleVars>>
       \/ /\ scene = "geo" /\ GeoNext
          /\ UNCHANGED <<allMeetingVars, pictureVars, memberVars, linkVars, oidcVars,
                        docVars, repoVars, tokenVars, wikiVars, annVars, throttleVars>>
       \/ /\ \/ scene = "budget" /\ BudgetNext
             \/ scene = "delay" /\ DelayNext
          /\ UNCHANGED <<allMeetingVars, pictureVars, memberVars, linkVars, oidcVars,
                        docVars, repoVars, tokenVars, wikiVars, annVars, geoVars>>

accessVars == <<allMeetingVars, pictureVars, memberVars, linkVars, oidcVars, docVars, repoVars,
                tokenVars, wikiVars, annVars, geoVars, throttleVars, scene>>

AccessSpec == AccessInit /\ [][AccessNext]_accessVars

\* The components are given the same handlers, and the same names for what
\* does not matter by itself, so that one small group of permutations serves
\* them all.
AccessSymmetry == Permutations(Operators) \cup Permutations(Repos) \cup Permutations(Urls)

\* The variables of every component keep their types, and every reference of
\* a row leads to a row: roles, boards, identities, keys, scopes, revisions.
AccessTypeOK ==
    /\ scene \in {"files", "meetings"} => FileTypeOK
    /\ scene = "meetings" => MeetingTypeOK
    /\ scene = "pictures" => PictureTypeOK
    /\ scene = "members" => MemberTypeOK
    /\ scene = "links" => LinkTypeOK
    /\ scene = "oidc" => OidcTypeOK
    /\ scene = "docs" => DocsTypeOK
    /\ scene = "repositories" => RepoTypeOK
    /\ scene = "tokens" => TokenTypeOK
    /\ scene = "wiki" => WikiTypeOK
    /\ scene = "annotations" => AnnTypeOK
    /\ scene = "geo" => GeoTypeOK
    /\ scene \in {"budget", "delay"} => ThrottleTypeOK

\* What takes two steps comes apart only where two requests overlapped, one
\* stopped half way, or one took a query that failed for an answer (a lookup
\* of a membership, the start of the geolocation service): a project keeps an
\* administrator, caps and fingerprints hold, a token's authority is current,
\* nothing that was saved is lost, a picture is what its row says, the
\* geolocation database in memory is on disk and its switch is obeyed, and
\* callers are slowed as the policy says.
GuardsNeedOverlap ==
    /\ AdminLostNeedsCause
    /\ RepositoryGuards
    /\ AuthorityNeedsOverlap
    /\ WikiKeepsHistory
    /\ AnnotationsNeedOverlap
    /\ PictureMatches
    /\ scene = "geo" => GeoFileMatches /\ GeoSwitchHolds
    /\ scene \in {"budget", "delay"} => CallersAreSlowed
=============================================================================
