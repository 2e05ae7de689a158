SPECIFICATION SiteSpec
CONSTANTS
  Seeded = {"android-happ", "faq"}
  OldSlugs = {"android-happ-kak-podklyuchit-vpn"}
  FreeSlugs = {}
  MaxId = 5
  MaxEvents = 3
INVARIANTS SiteTypeOK SeedSettles OwnText
PROPERTIES RestartKeepsEdits
CHECK_DEADLOCK FALSE
