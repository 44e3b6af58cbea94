SPECIFICATION FairDnsSpec
CONSTANTS
  None = None
  Gone = Gone
  Keys = {"assumed"}
  Values = {0, 1}
  Default <- Defaults
  Assumed = "assumed"
  Tasks = {t1, t2}
  Reports <- TwoReports
  Rows = {"blocked", "allowed"}
  BlockedRows = {"blocked"}
  Domains = {"d"}
  Scopes = {"phone"}
  Names = {"custom", "ads"}
  ListIds = {1, 2}
  MaxActs <- Bounds
INVARIANTS CountsAddUp
PROPERTIES SettingsSettle
CHECK_DEADLOCK FALSE
