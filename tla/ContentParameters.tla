-------------------------- MODULE ContentParameters --------------------------
(***************************************************************************)
(* The parameters of the modules over the content tables: Entries,         *)
(* Categories, Responses, Templates, PageAdmin, Images and Links.  They    *)
(* are declared once so that one model-checking module can hold them all   *)
(* to one assumption.                                                      *)
(***************************************************************************)
EXTENDS Integers, FiniteSets, Sequences

CONSTANTS
    Clients,        \* requests in flight; an open form is one
    Names,          \* tag names
    SlugOf,         \* DeriveTagSlug: the slug of a name
    MaxEntries,     \* bound: entries ever created
    MaxTags,        \* bound: tags ever created
    MaxSaves,       \* bound: requests on entries ever made
    Slugs,          \* custom slugs of categories
    NumberOf,       \* the number a slug reads as, 0 if it has other characters
    MaxCategories,  \* bound: categories ever created
    Posts,          \* entries that get a category
    MaxDepth,       \* the cap of categoryFullname
    Articles,       \* entries that readers see
    Emails,         \* addresses commenters give; "" is none
    Addresses,      \* client addresses
    Fingerprints,   \* fingerprintFor: address and user agent of a browser
    StampKinds,     \* kinds of reaction besides the like
    RateLimit,      \* commentRateLimit
    MaxComments,    \* bound: comments ever stored
    Texts,          \* names and bodies of templates that are submitted
    FileNames,      \* file names of assets
    MaxTemplates,   \* bound: templates ever created
    MaxAssets,      \* bound: asset rows ever created
    MaxFaults,      \* bound: writes of assets that fail
    PageSlugs,      \* slugs of pages (normalisePageSlug), by segments
    MaxPages,       \* bound: page rows ever inserted
    Uploaders,      \* who uploads: "editor" may delete what others did
    ImagesPerPage,  \* adminImagePageSize
    MaxImages,      \* bound: uploads that reach the disk
    MaxLinks,       \* bound: links and groups ever created
    MaxShown        \* bound: rows of a list that is put in order

ASSUME ClientsAssumption == IsFiniteSet(Clients)

ASSUME EntriesAssumption ==
    /\ MaxEntries \in Nat /\ MaxTags \in Nat /\ MaxSaves \in Nat
    /\ DOMAIN SlugOf = Names

ASSUME CategoriesAssumption ==
    /\ MaxCategories \in Nat /\ MaxDepth \in Nat \ {0}
    /\ "" \notin Slugs
    /\ NumberOf \in [Slugs -> Nat]

ASSUME ResponsesAssumption ==
    /\ RateLimit \in Nat \ {0} /\ MaxComments \in Nat
    /\ "" \notin Emails
    /\ "like" \notin StampKinds

ASSUME TemplatesAssumption ==
    /\ MaxTemplates \in Nat \ {0} /\ MaxAssets \in Nat /\ MaxFaults \in Nat
    /\ Texts # {}

ASSUME PageSlugsAssumption == \A s \in PageSlugs : s \in Seq(STRING) /\ s # <<>>

ASSUME MaxPagesAssumption == MaxPages \in Nat

ASSUME ImagesAssumption ==
    /\ MaxImages \in Nat /\ ImagesPerPage \in Nat \ {0}
    /\ "none" \notin Uploaders

ASSUME LinksAssumption == MaxLinks \in Nat /\ MaxShown \in Nat
=============================================================================
