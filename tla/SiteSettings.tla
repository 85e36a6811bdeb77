----------------------------- MODULE SiteSettings ------------------------------
(***************************************************************************)
(* The settings that are one row each: the club's banner with its image's  *)
(* file (BannerService), the commands of the judged languages              *)
(* (JudgeConfigService) and the mail account (MailService), with the pages *)
(* of the administrators who change them.                                  *)
(*                                                                         *)
(* Every service reads its row, makes the new one from what it read and    *)
(* from the request, and writes it, without a transaction.                 *)
(***************************************************************************)
EXTENDS Naturals, FiniteSets

CONSTANTS
  Change,    \* requests in flight
  Image,     \* names of uploaded files: a new one for each upload
  Language,  \* the judged languages
  MaxTyped,  \* bound: values typed into a page
  None       \* no image, no password

ASSUME SettingsAssumption == MaxTyped \in Nat /\ None \notin Image \cup Nat

VARIABLES
  topic,    \* the page that is open: "banner", "judge" or "mail"
  banner,   \* site_banner: its image and whether it is shown
  disk,     \* the files under uploads/banner
  config,   \* judge_config: the stored value of a language, 0 for its default
  form,     \* what JudgeConfigPage has in its fields
  mail,     \* mail_config: stored or not, enabled, the password
  req,      \* the requests
  typed,    \* how many values have been typed
  last,     \* history: the value of a language that was written last
  given,    \* history: the last password that was stored
  crossed,  \* history: a row was written from a reading that had become outdated
  cut       \* history: "save", "remove": one of these ended halfway

settingsVars ==
  <<topic, banner, disk, config, form, mail, req, typed, last, given, crossed, cut>>

Value == 0..MaxTyped
Password == (1..MaxTyped) \cup {None}

Free == [at |-> "free"]
\* row: what was read; fresh: nobody has written the row since.
Requests ==
       {Free}
  \cup [at : {"sent", "read", "undo", "clean"}, op : {"save"}, image : Image \cup {None},
        on : BOOLEAN, row : Image \cup {None}, fresh : BOOLEAN]
  \cup [at : {"sent", "read", "deleted"}, op : {"remove"}, image : {None}, row : Image \cup {None},
        fresh : BOOLEAN]
  \cup [at : {"sent", "read", "answer"}, op : {"update"}, lang : Language, to : Value,
        row : [Language -> Value], fresh : BOOLEAN]
  \cup [at : {"sent", "answer"}, op : {"reset"}, row : [Language -> Value], fresh : BOOLEAN]
  \cup [at : {"sent", "read"}, op : {"gmail"}, pass : Password, row : Password, fresh : BOOLEAN]
  \cup [at : {"sent", "read"}, op : {"disable"}, fresh : BOOLEAN]

SettingsTypeOK ==
  /\ topic \in {"banner", "judge", "mail"}
  /\ banner \in [image : Image \cup {None}, on : BOOLEAN]
  /\ disk \subseteq Image
  /\ config \in [Language -> Value] /\ last \in [Language -> Value] /\ form \in [Language -> Value]
  /\ mail \in [stored : BOOLEAN, on : BOOLEAN, pass : Password]
  /\ req \in [Change -> Requests]
  /\ typed \in 0..MaxTyped
  /\ given \in Password
  /\ crossed \in BOOLEAN
  /\ cut \subseteq {"save", "remove"}

SettingsInit ==
  /\ topic \in {"banner", "judge", "mail"}
  /\ banner = [image |-> None, on |-> FALSE]
  /\ disk = {}
  /\ config = [l \in Language |-> 0] /\ form = config /\ last = config
  /\ mail = [stored |-> FALSE, on |-> FALSE, pass |-> None]
  /\ req = [c \in Change |-> Free]
  /\ typed = 0
  /\ given = None
  /\ crossed = FALSE
  /\ cut = {}

bannerVars == <<banner, disk>>
judgeVars == <<config, form, last>>
mailVars == <<mail, given>>

Is(c, op, at) == req[c] # Free /\ req[c].op = op /\ req[c].at = at

Sends(t, c, r) == /\ topic = t /\ req[c] = Free
                  /\ req' = [req EXCEPT ![c] = r]
                  /\ UNCHANGED <<topic, crossed, cut>>

Goes(c, r) == /\ req' = [req EXCEPT ![c] = r]
              /\ UNCHANGED <<topic, typed, crossed, cut>>

\* What c's write of the row leaves of the requests; the others' readings are outdated.
Outdating(c, r) ==
  [d \in Change |-> IF d = c THEN r
                  ELSE IF req[d] # Free /\ req[d].at \in {"read", "deleted"}
                       THEN [req[d] EXCEPT !.fresh = FALSE] ELSE req[d]]

Overwrites(c, r) == /\ req' = Outdating(c, r)
                /\ crossed' = (crossed \/ ~req[c].fresh)
                /\ UNCHANGED <<topic, typed, cut>>

-----------------------------------------------------------------------------
(* The banner.                                                             *)

\* save() of the page; the upload is on the disk before the handler begins.
SaveBanner(c) ==
  /\ topic = "banner"
  /\ \E f \in Image \cup {None}, on \in BOOLEAN :
       /\ f # None => /\ typed < MaxTyped /\ f \notin disk
                      /\ f # banner.image
                      /\ \A d \in Change : req[d] # Free => f \notin {req[d].row, req[d].image}
       /\ Sends("banner", c, [at |-> "sent", op |-> "save", image |-> f, on |-> on,
                              row |-> None, fresh |-> TRUE])
       /\ disk' = disk \cup ({f} \ {None})
       /\ typed' = IF f = None THEN typed ELSE typed + 1
       /\ UNCHANGED <<banner, judgeVars, mailVars>>

\* The button is there while the page shows an image.
RemoveBanner(c) ==
  /\ banner.image # None
  /\ Sends("banner", c, [at |-> "sent", op |-> "remove", image |-> None, row |-> None, fresh |-> TRUE])
  /\ UNCHANGED <<bannerVars, judgeVars, mailVars, typed>>

\* A banner without an image cannot be shown; a file that is not what it says is refused.
ReadBanner(c) ==
  /\ Is(c, "save", "sent") \/ Is(c, "remove", "sent")
  /\ LET r == [req[c] EXCEPT !.at = "read", !.row = banner.image, !.fresh = TRUE]
         refused == r.op = "save" /\ r.on /\ r.image = None /\ r.row = None
     IN \/ Goes(c, IF refused THEN Free ELSE r)
        \/ r.image # None /\ Goes(c, [r EXCEPT !.at = "undo"])
  /\ UNCHANGED <<bannerVars, judgeVars, mailVars>>

\* The old file may go only when the row names another.
Outlived_Always(r) == r.row # None
Outlived(r) == r.image # None /\ r.row # None /\ r.row # r.image

WriteBanner(c) ==
  /\ Is(c, "save", "read")
  /\ \/ /\ Overwrites(c, IF Outlived(req[c]) THEN [req[c] EXCEPT !.at = "clean"] ELSE Free)
        /\ banner' = [image |-> IF req[c].image # None THEN req[c].image ELSE req[c].row,
                      on |-> req[c].on]
     \/ /\ Goes(c, IF req[c].image # None THEN [req[c] EXCEPT !.at = "undo"] ELSE Free)
        /\ banner' = banner
  /\ UNCHANGED <<disk, judgeVars, mailVars>>

\* The new file of a save that was refused or failed, the old one of a save that succeeded.
Unlink(c) ==
  /\ Is(c, "save", "undo") \/ Is(c, "save", "clean")
  /\ disk' = disk \ {IF req[c].at = "undo" THEN req[c].image ELSE req[c].row}
  /\ Goes(c, Free)
  /\ UNCHANGED <<banner, judgeVars, mailVars>>

\* remove() takes the file away before the row lets go of it.
UnlinkFirst(c) ==
  /\ Is(c, "remove", "read")
  /\ disk' = disk \ {req[c].row}
  /\ Goes(c, [req[c] EXCEPT !.at = "deleted"])
  /\ UNCHANGED <<banner, judgeVars, mailVars>>

ClearBanner(c) ==
  /\ Is(c, "remove", "deleted")
  /\ banner' = [image |-> None, on |-> FALSE]
  /\ Overwrites(c, Free)
  /\ UNCHANGED <<disk, judgeVars, mailVars>>

-----------------------------------------------------------------------------
(* The judged languages.                                                   *)

\* A key pressed in a field of one language
TypeCommand(l) ==
  /\ topic = "judge" /\ typed < MaxTyped
  /\ form' = [form EXCEPT ![l] = typed + 1] /\ typed' = typed + 1
  /\ UNCHANGED <<topic, req, crossed, cut, config, last, bannerVars, mailVars>>

\* saveLang(): only the button of the language being saved waits for the answer.
SaveLang(c, l) ==
  /\ Sends("judge", c, [at |-> "sent", op |-> "update", lang |-> l, to |-> form[l],
                        row |-> config, fresh |-> TRUE])
  /\ UNCHANGED <<typed, bannerVars, judgeVars, mailVars>>

ResetAll(c) ==
  /\ Sends("judge", c, [at |-> "sent", op |-> "reset", row |-> config, fresh |-> TRUE])
  /\ UNCHANGED <<typed, bannerVars, judgeVars, mailVars>>

ReadConfig(c) ==
  /\ Is(c, "update", "sent")
  /\ Goes(c, [req[c] EXCEPT !.at = "read", !.row = config, !.fresh = TRUE])
  /\ UNCHANGED <<bannerVars, judgeVars, mailVars>>

Merged_Partial(row, l, v) == [m \in Language |-> IF m = l THEN v ELSE 0]
Merged(row, l, v) == [row EXCEPT ![l] = v]

\* The whole row is written, with the other languages as they were read.
WriteConfig(c) ==
  /\ Is(c, "update", "read")
  /\ config' = Merged(req[c].row, req[c].lang, req[c].to)
  /\ last' = [last EXCEPT ![req[c].lang] = req[c].to]
  /\ Overwrites(c, [req[c] EXCEPT !.at = "answer"])
  /\ UNCHANGED <<form, bannerVars, mailVars>>

WriteReset(c) ==
  /\ Is(c, "reset", "sent")
  /\ config' = [l \in Language |-> 0] /\ last' = config'
  /\ Overwrites(c, [req[c] EXCEPT !.at = "answer"])
  /\ UNCHANGED <<form, bannerVars, mailVars>>

\* getEffective() is read once more, and every field of the page takes its value.
ShowConfig(c) ==
  /\ Is(c, "update", "answer") \/ Is(c, "reset", "answer")
  /\ form' = config
  /\ Goes(c, Free)
  /\ UNCHANGED <<config, last, bannerVars, mailVars>>

-----------------------------------------------------------------------------
(* The mail account.                                                       *)

\* saveGmail(): an empty password means the stored one.
SaveGmail(c) ==
  /\ \E p \in {typed + 1, None} \cap Password :
       /\ Sends("mail", c, [at |-> "sent", op |-> "gmail", pass |-> p, row |-> None, fresh |-> TRUE])
       /\ typed' = IF p = None THEN typed ELSE typed + 1
  /\ UNCHANGED <<bannerVars, judgeVars, mailVars>>

DisableConfig(c) ==
  /\ mail.on
  /\ Sends("mail", c, [at |-> "sent", op |-> "disable", fresh |-> TRUE])
  /\ UNCHANGED <<typed, bannerVars, judgeVars, mailVars>>

\* Without any password nothing is stored; without a row nothing is disabled.
ReadMail(c) ==
  /\ Is(c, "gmail", "sent") \/ Is(c, "disable", "sent")
  /\ IF req[c].op = "gmail"
     THEN Goes(c, IF req[c].pass = None /\ mail.pass = None THEN Free
                  ELSE [req[c] EXCEPT !.at = "read", !.row = mail.pass, !.fresh = TRUE])
     ELSE Goes(c, IF mail.stored THEN [req[c] EXCEPT !.at = "read", !.fresh = TRUE] ELSE Free)
  /\ UNCHANGED <<bannerVars, judgeVars, mailVars>>

WriteGmail(c) ==
  LET p == IF req[c].pass # None THEN req[c].pass ELSE req[c].row IN
  /\ Is(c, "gmail", "read")
  /\ mail' = [stored |-> TRUE, on |-> TRUE, pass |-> p]
  /\ given' = IF req[c].pass # None THEN p ELSE given
  /\ Overwrites(c, Free)
  /\ UNCHANGED <<bannerVars, judgeVars>>

\* Only the flag is written, so nobody's reading of the password is outdated.
WriteDisable(c) ==
  /\ Is(c, "disable", "read")
  /\ mail' = [mail EXCEPT !.on = FALSE]
  /\ Goes(c, Free)
  /\ UNCHANGED <<given, bannerVars, judgeVars>>

-----------------------------------------------------------------------------

\* The process dies, a write other than that of the banner's save fails, an answer is lost, or
\* the banner's link is refused, which is looked at after the file has been stored.
Ends(c) ==
  /\ req[c] # Free
  /\ req' = [req EXCEPT ![c] = Free]
  /\ cut' = cut \cup ({req[c].op} \cap {"save", "remove"})
  /\ UNCHANGED <<topic, typed, crossed, bannerVars, judgeVars, mailVars>>

BannerStep(c) == \/ SaveBanner(c) \/ RemoveBanner(c) \/ ReadBanner(c) \/ WriteBanner(c)
                 \/ Unlink(c) \/ UnlinkFirst(c) \/ ClearBanner(c)
JudgeStep(c) == \/ \E l \in Language : SaveLang(c, l)
                \/ ResetAll(c) \/ ReadConfig(c) \/ WriteConfig(c) \/ WriteReset(c) \/ ShowConfig(c)
MailStep(c) == \/ SaveGmail(c) \/ DisableConfig(c) \/ ReadMail(c) \/ WriteGmail(c) \/ WriteDisable(c)

SettingsNext ==
  \/ \E c \in Change : BannerStep(c) \/ JudgeStep(c) \/ MailStep(c) \/ Ends(c)
  \/ \E l \in Language : TypeCommand(l)

SettingsSpec == SettingsInit /\ [][SettingsNext]_settingsVars

-----------------------------------------------------------------------------
(* Properties.                                                             *)

\* The banner's image is on the disk, whatever saves fail (banner.service.ts:157), unless
\* it is being removed or a removal ended between the file and the row.
ImageStands ==
  \/ banner.image \in disk \cup {None}
  \/ "remove" \in cut
  \/ \E c \in Change : Is(c, "remove", "deleted")

\* No file is left behind once nothing is under way, but by a request that died.
NoLeftovers == (\A c \in Change : req[c] = Free) => disk \subseteq {banner.image} \/ cut # {}

\* A save of one setting changes no other: the image and the files belong together, each
\* language has the value that was written for it last, the stored password is the last
\* one given.  Only a write from an outdated reading may break this.
SettingsHold ==
  crossed \/ (ImageStands /\ NoLeftovers /\ config = last /\ mail.pass = given)
=============================================================================
