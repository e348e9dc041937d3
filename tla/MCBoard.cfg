CONSTANTS
  Ids <- MCIds
  Versions <- MCVersions
  MaxTombstones = 2
  Lists = {"food", "games"}
  PageSize = 2
  Crawlers <- MCCrawlers
SPECIFICATION BoardSpec
CHECK_DEADLOCK FALSE
PROPERTIES RemovedMeansGone AnnouncedOnce
